---- MODULE Spec2Model ----
(***************************************************************************)
(* Model of the Yougile API client (retry engine, task cache, the five     *)
(* remote operations) and of the bot's post-creation verification loop.    *)
(*                                                                         *)
(* Time: the retry engine's clock counts units of 500 ms (the default      *)
(* base wait); the cache clock `now` counts minutes.                       *)
(***************************************************************************)
EXTENDS Integers, Sequences, FiniteSets, TLC

VARIABLES
    retryCount,       \* Client.retryCount
    retryWait,        \* Client.retryWait        (units of 500 ms)
    maxRetryElapsed,  \* Client.maxRetryElapsed  (units of 500 ms)
    cache,            \* Client.cache: [Tasks, UpdatedAt]
    mu,               \* Client.mu: [writer, readers]
    now,              \* wall clock, minutes
    heap,             \* backing arrays of the nested slices of decoded task lists
    call,             \* per caller: the API call in progress (locals of the method)
    ret,              \* per caller: the task list the last GetTasks returned to it
    ghost,            \* history: which fetch wrote cache.Tasks / cache.UpdatedAt
    prev,             \* history: the last completed GetTasks fetch of the observed caller
    mutated,          \* history: per caller, flipped whenever it changes a list it was given
    verif,            \* the TaskVerification records of the bot and their timers
    users,            \* storage: the role of every user
    sent,             \* per record, the notification sends attempted for it, in order
    flow,             \* per record, the handler that created its task and what it called
    told,             \* history: per record, the texts notifyError sent (kept under SpecFlow)
    notice,           \* formatTaskNotification: the description given and the text made of it
    board,            \* the remote board: the task it holds under each identifier (SpecBoard)
    poll,             \* checkNewTasks: Storage.knownTasks and what the polls did, in order
    store             \* Storage: its lock, isDirty, and where each goroutine is in its method

vars == <<retryCount, retryWait, maxRetryElapsed, cache, mu, now, heap, call, ret,
          ghost, prev, mutated, verif, users, sent, flow, told, notice, board, poll, store>>

-----------------------------------------------------------------------------
(* Bounds of the model *)

MaxTime == 6            \* the clock stops after this many minutes
MaxAttemptTime == 12    \* duration of a slow attempt, units of 500 ms
MaxPolicyCount == 3     \* largest attempt ceiling given to SetRetryPolicy
MaxPolicyArg == 6       \* largest base wait and largest budget given to SetRetryPolicy under SpecPolicy
MaxWide == 6            \* most two-byte characters at the end of a description
Margin == 6             \* a description starts with DescLimit - Margin or more one-byte characters
MaxVerifyTime == 4      \* no verification timer is set to fire after this minute
MaxRaceTime == 2        \* the clock of SpecRace stops after this many minutes
DurationBits == 8       \* width of time.Duration in the model (64 in Go), two's complement

(* Program constants *)

DefaultRetryCount == 3
DefaultRetryWait == 1
DefaultMaxRetryElapsed == 20
Expiration == 5
StatusOK == 200
StatusCreated == 201
StatusTooManyRequests == 429
StatusServerError == 500

Procs == {"p1", "p2"}
Caller == "p1"
NoProc == "none"
Blocks == 1..(Cardinality(Procs) + 1)

Min(a, b) == IF a < b THEN a ELSE b

RECURSIVE Pow2(_)
Pow2(n) == IF n = 0 THEN 1 ELSE 2 * Pow2(n - 1)

\* time.Duration: a signed integer of DurationBits bits that wraps around
MaxDuration == Pow2(DurationBits - 1) - 1
WrapDuration(x) == ((x + Pow2(DurationBits - 1)) % Pow2(DurationBits)) - Pow2(DurationBits - 1)

\* 1 << attempt on a time.Duration
ShiftLeft(attempt) == IF attempt >= DurationBits THEN 0 ELSE WrapDuration(Pow2(attempt))

\* time.Sleep(d) returns at once when d <= 0
Slept(d) == IF d > 0 THEN d ELSE 0

-----------------------------------------------------------------------------
(* Data *)

\* models.Task as it travels in a JSON body: nested lists by value
WireTask(id, title, desc, atts) ==
    [ID |-> id, Title |-> title, Description |-> desc, Attachments |-> atts]

\* a slice header of a nested list: the backing array it points to
NilSlice == [blk |-> 0, idx |-> 0]

\* the zero value of models.Task
ZeroTask == [ID |-> 0, Title |-> <<>>, Description |-> <<>>, Attachments |-> NilSlice]

\* the nested list a slice header denotes
Deref(h, hp) == IF h.blk = 0 THEN <<>> ELSE hp[h.blk][h.idx]

\* a task list in memory, seen by value
View(list, hp) ==
    [i \in DOMAIN list |->
        WireTask(list[i].ID, list[i].Title, list[i].Description,
                 Deref(list[i].Attachments, hp))]

\* json.Decoder.Decode of a {data: [...]} body: the elements are new values and
\* each nested list is a new backing array, here held in block b
DecodeList(data, b) ==
    [i \in DOMAIN data |->
        [ID |-> data[i].ID, Title |-> data[i].Title,
         Description |-> data[i].Description,
         Attachments |-> IF data[i].Attachments = <<>> THEN NilSlice
                         ELSE [blk |-> b, idx |-> i]]]

DecodeBlock(data) == [i \in DOMAIN data |-> data[i].Attachments]

\* make([]models.Task, n): n zero values
MakeTasks(n) == [i \in 1..n |-> ZeroTask]

\* copy(dst, src) of slices of equal length: element-wise assignment; the
\* slice headers inside the elements are copied, the backing arrays are shared
CopyTasks(src) == [i \in DOMAIN src |-> src[i]]

BlocksOf(list) == {list[i].Attachments.blk : i \in DOMAIN list} \ {0}

-----------------------------------------------------------------------------
(* Errors and remote outcomes *)

Err(kind, status) == [kind |-> kind, status |-> status]
NoErr == Err("nil", 0)

NoBody == [ok |-> FALSE, id |-> 0, data |-> <<>>]
IdBody(id) == [ok |-> TRUE, id |-> id, data |-> <<>>]
ListBody(data) == [ok |-> TRUE, id |-> 0, data |-> data]

\* what one attempt meets: the request cannot be built, the connection fails,
\* or a response with a status and a body arrives
BuildFailure == [k |-> "build", status |-> 0, body |-> NoBody]
ConnFailure == [k |-> "conn", status |-> 0, body |-> NoBody]
Response(status, body) == [k |-> "resp", status |-> status, body |-> body]

Statuses == {StatusOK, StatusCreated, 404, StatusTooManyRequests, StatusServerError, 503}

ParsedIds == {0, 1, 2}

ListA == <<WireTask(1, <<"a">>, <<>>, <<"f">>)>>
ListB == <<WireTask(1, <<"a">>, <<>>, <<>>), WireTask(2, <<"b">>, <<>>, <<"g">>)>>

CacheLists == {<<>>, ListA, ListB}

SuccessStatus(op) == IF op \in {"GetTasks", "UpdateTask"} THEN StatusOK ELSE StatusCreated

\* the bodies a success response of op may carry
Bodies(op) ==
    IF op = "GetTasks" THEN {NoBody} \cup {ListBody(l) : l \in CacheLists}
    ELSE IF op = "CreateTask" THEN {NoBody} \cup {IdBody(i) : i \in ParsedIds}
    ELSE {NoBody}

Outcomes(op) ==
    {BuildFailure, ConnFailure}
    \cup {Response(s, NoBody) : s \in Statuses \ {SuccessStatus(op)}}
    \cup {Response(SuccessStatus(op), b) : b \in Bodies(op)}

AttemptTimes == {0, MaxAttemptTime}

-----------------------------------------------------------------------------
(* The four operations that run under retryOperation: what one attempt      *)
(* returns as (done, err)                                                   *)

\* the retry condition without the 429 case
Retryable_No429(status) == status >= StatusServerError

Retryable(status) == status >= StatusServerError \/ status = StatusTooManyRequests

\* CreateTask comparing the status with 200 instead of 201
CreateTaskOp_ExpectOK(out) ==
    IF out.k = "build" THEN [done |-> TRUE, err |-> Err("build", 0)]
    ELSE IF out.k = "conn" THEN [done |-> FALSE, err |-> Err("transport", 0)]
    ELSE IF out.status = StatusOK THEN [done |-> TRUE, err |-> NoErr]
    ELSE IF Retryable(out.status) THEN [done |-> FALSE, err |-> Err("retry_status", out.status)]
    ELSE [done |-> TRUE, err |-> Err("status", out.status)]

\* the closure of CreateTask asking for a retry when the body of a 201 does
\* not decode
CreateTaskOp_RetryUndecodable(out) ==
    IF out.k = "build" THEN [done |-> TRUE, err |-> Err("build", 0)]
    ELSE IF out.k = "conn" THEN [done |-> FALSE, err |-> Err("transport", 0)]
    ELSE IF out.status = StatusCreated
    THEN IF out.body.ok THEN [done |-> TRUE, err |-> NoErr]
         ELSE [done |-> FALSE, err |-> Err("decode", 0)]
    ELSE IF Retryable(out.status) THEN [done |-> FALSE, err |-> Err("retry_status", out.status)]
    ELSE [done |-> TRUE, err |-> Err("status", out.status)]

\* the closure of Client.CreateTask
CreateTaskOp(out) ==
    IF out.k = "build" THEN [done |-> TRUE, err |-> Err("build", 0)]
    ELSE IF out.k = "conn" THEN [done |-> FALSE, err |-> Err("transport", 0)]
    ELSE IF out.status = StatusCreated THEN [done |-> TRUE, err |-> NoErr]
    ELSE IF Retryable(out.status) THEN [done |-> FALSE, err |-> Err("retry_status", out.status)]
    ELSE [done |-> TRUE, err |-> Err("status", out.status)]

\* CreateTask writing the parsed id to a copy of the task
CreateTaskID_NoWrite(id, out) == id

\* task.ID after one attempt of CreateTask
CreateTaskID(id, out) ==
    IF out.k = "resp" /\ out.status = StatusCreated /\ out.body.ok /\ out.body.id # 0
    THEN out.body.id ELSE id

\* the closure of Client.UpdateTask
UpdateTaskOp(out) ==
    IF out.k = "build" THEN [done |-> TRUE, err |-> Err("build", 0)]
    ELSE IF out.k = "conn" THEN [done |-> FALSE, err |-> Err("transport", 0)]
    ELSE IF out.status = StatusOK THEN [done |-> TRUE, err |-> NoErr]
    ELSE IF Retryable(out.status) THEN [done |-> FALSE, err |-> Err("retry_status", out.status)]
    ELSE [done |-> TRUE, err |-> Err("status", out.status)]

\* the closure of Client.UploadAttachment
UploadAttachmentOp(out) ==
    IF out.k = "build" THEN [done |-> TRUE, err |-> Err("build", 0)]
    ELSE IF out.k = "conn" THEN [done |-> FALSE, err |-> Err("transport", 0)]
    ELSE IF out.status = StatusCreated THEN [done |-> TRUE, err |-> NoErr]
    ELSE IF Retryable(out.status) THEN [done |-> FALSE, err |-> Err("retry_status", out.status)]
    ELSE [done |-> TRUE, err |-> Err("status", out.status)]

\* the closure of Client.AddComment
AddCommentOp(out) ==
    IF out.k = "build" THEN [done |-> TRUE, err |-> Err("build", 0)]
    ELSE IF out.k = "conn" THEN [done |-> FALSE, err |-> Err("transport", 0)]
    ELSE IF out.status = StatusCreated THEN [done |-> TRUE, err |-> NoErr]
    ELSE IF Retryable(out.status) THEN [done |-> FALSE, err |-> Err("retry_status", out.status)]
    ELSE [done |-> TRUE, err |-> Err("status", out.status)]

OpResult(op, out) ==
    CASE op = "CreateTask" -> CreateTaskOp(out)
      [] op = "UpdateTask" -> UpdateTaskOp(out)
      [] op = "UploadAttachment" -> UploadAttachmentOp(out)
      [] op = "AddComment" -> AddCommentOp(out)

RetryOps == {"CreateTask", "UpdateTask", "UploadAttachment", "AddComment"}

\* history of a call: whether every attempt made so far received status 500
Only500(c) ==
    c.only500 /\ (c.last.k = "none" \/ (c.last.k = "resp" /\ c.last.status = StatusServerError))

Sent(out) == IF out.k = "build" THEN 0 ELSE 1

\* httpClient.Do returns a response: its body is open
ReceiveBody(c, out) ==
    IF out.k = "resp" THEN [c EXCEPT !.open = @ \cup {c.requests + 1}] ELSE c

\* resp.Body.Close() on the response of the last request; closing twice
\* changes nothing
CloseBody(c) == [c EXCEPT !.open = @ \ {c.requests}]

\* elapsed time saturates one unit above the budget: only the comparison with
\* the budget reads it
Clamp(t, budget) == Min(t, budget + 1)

\* a backoff computed without the width of time.Duration
Backoff_Unbounded(wait, attempt, jitter) == wait * Pow2(attempt) + jitter

\* the backoff before the next attempt: c.retryWait * (1 << attempt) + jitter
Backoff(wait, attempt, jitter) ==
    WrapDuration(WrapDuration(wait * ShiftLeft(attempt)) + jitter)

\* retryOperation without the check of the elapsed time
retryOperation_NoBudget(c, out, dur, jitter, count, wait, budget) ==
    LET r  == OpResult(c.op, out)
        c1 == [c EXCEPT !.requests = @ + Sent(out),
                        !.only500 = Only500(c),
                        !.last = out,
                        !.elapsed = Clamp(c.elapsed + Slept(c.slept) + dur, budget),
                        !.id = IF c.op = "CreateTask" THEN CreateTaskID(@, out) ELSE @]
    IN  IF r.done
        THEN [c1 EXCEPT !.pc = "done", !.err = r.err]
        ELSE LET c2 == [c1 EXCEPT !.attempt = @ + 1, !.sleeps = @ + 1, !.lastErr = r.err,
                                  !.slept = Backoff(wait, c.attempt, jitter)]
             IN  IF c2.attempt < count
                 THEN c2
                 ELSE [c2 EXCEPT !.pc = "done", !.err = r.err]

\* retryOperation going on after an error of an attempt that was final
retryOperation_RetryTerminal(c, out, dur, jitter, count, wait, budget) ==
    LET r  == OpResult(c.op, out)
        el == Clamp(c.elapsed + Slept(c.slept) + dur, budget)
        c1 == [c EXCEPT !.requests = @ + Sent(out),
                        !.only500 = Only500(c),
                        !.last = out,
                        !.elapsed = el,
                        !.id = IF c.op = "CreateTask" THEN CreateTaskID(@, out) ELSE @]
    IN  IF r.done /\ r.err = NoErr
        THEN [c1 EXCEPT !.pc = "done", !.err = r.err]
        ELSE IF budget > 0 /\ el > budget
        THEN [c1 EXCEPT !.pc = "done", !.err = Err("timeout", 0)]
        ELSE LET c2 == [c1 EXCEPT !.attempt = @ + 1,
                                  !.sleeps = @ + 1,
                                  !.lastErr = r.err,
                                  !.slept = Backoff(wait, c.attempt, jitter)]
             IN  IF c2.attempt < count
                 THEN c2
                 ELSE [c2 EXCEPT !.pc = "done", !.err = r.err]

\* One iteration of the loop of Client.retryOperation on the call c, with the
\* loop exit when it was the last one
retryOperation(c, out, dur, jitter, count, wait, budget) ==
    LET r  == OpResult(c.op, out)
        el == Clamp(c.elapsed + Slept(c.slept) + dur, budget)
        c1 == [c EXCEPT !.requests = @ + Sent(out),
                        !.only500 = Only500(c),
                        !.last = out,
                        !.elapsed = el,
                        !.id = IF c.op = "CreateTask" THEN CreateTaskID(@, out) ELSE @]
    IN  IF r.done
        THEN [c1 EXCEPT !.pc = "done", !.err = r.err]
        ELSE IF budget > 0 /\ el > budget
        THEN [c1 EXCEPT !.pc = "done", !.err = Err("timeout", 0)]
        ELSE LET c2 == [c1 EXCEPT !.attempt = @ + 1,
                                  !.sleeps = @ + 1,
                                  !.lastErr = r.err,
                                  !.slept = Backoff(wait, c.attempt, jitter)]
             IN  IF c2.attempt < count
                 THEN c2
                 ELSE [c2 EXCEPT !.pc = "done", !.err = r.err]

-----------------------------------------------------------------------------
(* Client.GetTasks: the inline retry loop and what follows it               *)

\* GetTasks ignoring the error of Decode
GetTasksAfterLoop_IgnoreDecodeError(c) ==
    IF c.errv # NoErr
    THEN [c EXCEPT !.pc = "done", !.err = Err(IF c.errv.kind = "conn" THEN "transport" ELSE "build", 0)]
    ELSE IF c.resp = "nil"
    THEN [c EXCEPT !.pc = "done", !.err = Err("empty", 0)]
    ELSE [c EXCEPT !.pc = "decoded"]

\* after the loop: the error checks and the decoding of resp.Body
GetTasksAfterLoop(c) ==
    IF c.errv # NoErr
    THEN [c EXCEPT !.pc = "done", !.err = Err(IF c.errv.kind = "conn" THEN "transport" ELSE "build", 0)]
    ELSE IF c.resp = "nil"
    THEN [c EXCEPT !.pc = "done", !.err = Err("empty", 0)]
    ELSE IF c.resp = "closed" \/ ~c.last.body.ok
    THEN [c EXCEPT !.pc = "done", !.err = Err("decode", 0)]
    ELSE [c EXCEPT !.pc = "decoded"]

\* GetTasks giving up only on 4xx statuses
NonRetriableStatus_Only4xx(status) ==
    status >= 400 /\ status < StatusServerError /\ status # StatusTooManyRequests

\* GetTasks: a status other than 200 on which the call gives up at once
NonRetriableStatus(status) == status < StatusServerError /\ status # StatusTooManyRequests

\* one iteration of the loop of GetTasks
GetTasksAttempt(c, out, dur, jitter, count, wait, budget) ==
    LET c1 == [ReceiveBody(c, out) EXCEPT
                        !.requests = @ + Sent(out),
                        !.only500 = Only500(c),
                        !.last = out,
                        !.elapsed = Clamp(c.elapsed + Slept(c.slept) + dur, budget)]
    IN  IF out.k = "build"
        THEN GetTasksAfterLoop([c1 EXCEPT !.errv = Err("build", 0)])
        ELSE IF out.k = "resp" /\ out.status = StatusOK
        THEN GetTasksAfterLoop([c1 EXCEPT !.errv = NoErr, !.resp = "open"])
        ELSE IF out.k = "resp" /\ NonRetriableStatus(out.status)
        THEN [CloseBody(c1) EXCEPT !.errv = NoErr, !.resp = "closed", !.pc = "done",
                        !.err = Err("status", out.status)]
        ELSE LET c2 == [CloseBody(c1) EXCEPT !.errv = IF out.k = "conn" THEN Err("conn", 0) ELSE NoErr,
                                  !.resp = IF out.k = "conn" THEN "nil" ELSE "closed",
                                  !.attempt = @ + 1,
                                  !.sleeps = @ + 1,
                                  !.slept = Backoff(wait, c.attempt, jitter)]
             IN  IF c2.attempt < count THEN c2 ELSE GetTasksAfterLoop(c2)

\* the cache check with the comparison inverted
CacheFresh_Inverted(ch, t) == Len(ch.Tasks) > 0 /\ t - ch.UpdatedAt > Expiration

\* the condition of the cache check at the head of GetTasks
CacheFresh(ch, t) == Len(ch.Tasks) > 0 /\ t - ch.UpdatedAt < Expiration

-----------------------------------------------------------------------------
(* State of one caller's API call *)

NoOutcome == [k |-> "none", status |-> 0, body |-> NoBody]
NoFetch == <<NoProc, 0>>

IdleCall ==
    [op |-> "idle", pc |-> "idle",
     attempt |-> 0, requests |-> 0, sleeps |-> 0,
     elapsed |-> 0,                             \* time.Since(start) when the last attempt ended
     slept |-> 0,                               \* the argument of the last time.Sleep
     lastErr |-> NoErr, err |-> NoErr,
     only500 |-> TRUE, last |-> NoOutcome,
     idBefore |-> 0, id |-> 0,                  \* task.ID at the call and now
     errv |-> NoErr, resp |-> "nil",            \* err and resp of GetTasks
     data |-> <<>>, wire |-> <<>>,              \* result.Data, and the body it came from
     hit |-> FALSE, fpar |-> 0,
     buf |-> <<>>,                              \* body: what is left to read of the multipart buffer
     bodies |-> 0,                              \* multipart bodies built by UploadAttachment
     payload |-> <<>>,                          \* what the last request of UploadAttachment carried
     open |-> {},                               \* the responses, by request number, whose body is not closed
     incs |-> 0, lats |-> 0,                    \* calls of IncAPIRequests and UpdateLatency
     created |-> 0,                             \* tasks the remote board created for this call
     readAt |-> 0]                              \* GetTasks: when httpClient.Do returned the list

Ops == RetryOps \cup {"GetTasks"}

\* the attachment and the bytes given to UploadAttachment
UploadMetadata == <<"id", "type", "file_id">>
UploadData == <<"b1", "b2">>

\* the multipart body of UploadAttachment: the part metadata, then the part file
MultipartBody(attachment, data) ==
    <<[name |-> "metadata", content |-> attachment], [name |-> "file", content |-> data]>>

\* UploadAttachment building the body once, before the first attempt
BuildBody_Once(c) ==
    IF c.bodies = 0
    THEN [c EXCEPT !.buf = MultipartBody(UploadMetadata, UploadData), !.bodies = @ + 1]
    ELSE c

\* the closure of UploadAttachment: body := &bytes.Buffer{} and the two parts
BuildBody(c) ==
    [c EXCEPT !.buf = MultipartBody(UploadMetadata, UploadData), !.bodies = @ + 1]

\* httpClient.Do reads the buffer: all of it when a response arrives, part of
\* it when the connection fails
SendBody(c, out) ==
    IF Sent(out) = 0 THEN c
    ELSE [c EXCEPT !.payload = c.buf,
                   !.buf = IF out.k = "conn" /\ c.buf # <<>> THEN Tail(c.buf) ELSE <<>>]

\* the closures closing no body when the Decode of a 201 fails
ClosesBody_LeakOnDecodeFailure(op, out) ==
    ~(op = "CreateTask" /\ out.status = StatusCreated /\ ~out.body.ok)

\* whether the closure of op closes the body of the response it received, on
\* the path the response takes through it
ClosesBody(op, out) ==
    CASE op = "CreateTask" ->
            IF out.status = StatusCreated
            THEN IF ~out.body.ok THEN TRUE      \* Decode failed: Close, treated as success
                 ELSE TRUE                      \* decoded: Close
            ELSE TRUE                           \* ReadFrom, Close
      [] op = "UpdateTask" -> TRUE              \* ReadFrom, Close, before the status is read
      [] op = "UploadAttachment" ->
            IF out.status = StatusCreated THEN TRUE ELSE TRUE
      [] op = "AddComment" -> TRUE              \* ReadFrom, Close, before the status is read

\* the remote board and one request of CreateTask: it creates the task when
\* it answers 201; when the answer is a 5xx or 429 status, or the connection
\* fails, it may have created it all the same (lost)
Commit(c, out, lost) ==
    IF c.op = "CreateTask"
       /\ \/ out.k = "resp" /\ out.status = StatusCreated
          \/ lost /\ (out.k = "conn" \/ (out.k = "resp" /\ Retryable(out.status)))
    THEN [c EXCEPT !.created = @ + 1]
    ELSE c

\* what an attempt does before retryOperation looks at its result
Attempt(c, out) ==
    LET b == IF c.op = "UploadAttachment" THEN SendBody(BuildBody(c), out) ELSE c
        r == ReceiveBody(b, out)
    IN  IF out.k = "resp" /\ ClosesBody(c.op, out)
        THEN [r EXCEPT !.open = @ \ {c.requests + 1}]
        ELSE r

\* the head of a method: only GetTasks calls c.metrics.IncAPIRequests()
Enter(c) == IF c.op = "GetTasks" THEN [c EXCEPT !.incs = @ + 1] ELSE c

\* the deferred functions of GetTasks, run when it returns: UpdateLatency,
\* and resp.Body.Close() when the return is after the loop with a response
GetTasksReturn(c) ==
    LET d == [c EXCEPT !.lats = @ + 1]
    IN  IF ~c.hit /\ c.err.kind \in {"nil", "decode"} THEN CloseBody(d) ELSE d

\* a read path that does not wait for the writer
CanRLock_NoWait(m) == TRUE

\* sync.RWMutex
CanRLock(m) == m.writer = NoProc
CanLock(m) == m.writer = NoProc /\ m.readers = {}

UsedBlocks(ch, rt, cl) ==
    BlocksOf(ch.Tasks) \cup UNION {BlocksOf(rt[p]) \cup BlocksOf(cl[p].data) : p \in Procs}

\* the garbage collector: backing arrays nothing refers to are gone
Sweep(hp, used) == [b \in Blocks |-> IF b \in used THEN hp[b] ELSE <<>>]

FreeBlock(used) == CHOOSE b \in Blocks \ used : \A x \in Blocks \ used : b <= x

\* the identity of the fetch in progress in call c of caller p
Fid(p, c) == <<p, c.fpar>>

\* SetRetryPolicy storing its arguments as they are
SetRetryPolicy_Unchecked(cur, count, wait, maxElapsed) ==
    [count |-> count, wait |-> wait, maxElapsed |-> maxElapsed]

\* Client.SetRetryPolicy
SetRetryPolicy(cur, count, wait, maxElapsed) ==
    [count |-> IF count > 0 THEN count ELSE cur.count,
     wait |-> IF wait > 0 THEN wait ELSE cur.wait,
     maxElapsed |-> IF maxElapsed > 0 THEN maxElapsed ELSE cur.maxElapsed]

Policy == [count |-> retryCount, wait |-> retryWait, maxElapsed |-> maxRetryElapsed]

PolicyCounts == 0..MaxPolicyCount
PolicyWaits == {0}
PolicyBudgets == {0, 1, MaxAttemptTime - 2}

ClientUnchanged == UNCHANGED <<retryCount, retryWait, maxRetryElapsed>>
HandlersUnchanged == UNCHANGED <<flow, told, notice>>
OthersUnchanged == UNCHANGED <<board, poll, store>>

-----------------------------------------------------------------------------
(* The verification loop of the bot *)

VerifyDelay == 2

\* formatTaskNotification: the length it cuts a description to
DescLimit == 200

Records == {"r1", "r2"}
Users == {"u1", "u2"}
FirstUser == "u1"
NoUser == "nobody"
RoleAdmin == "admin"
RoleUser == "user"

\* the text "повторно исправлено" and the text of a title or a description, as
\* sequences of words
Mark == <<"m">>
Titles == {<<"a">>}
Contents == {<<>>, <<"c">>}

\* strings.Contains
Contains(s, sub) ==
    \E i \in 0..(Len(s) - Len(sub)) : SubSeq(s, i + 1, i + Len(sub)) = sub

\* the id the remote gave the task of record r when the user created it, and
\* the id it gives a task created again
RecordTaskId(r) == IF r = "r1" THEN 1 ELSE 2
NewTaskId == 3

\* the user who created the task of record r
RecordSender(r) == IF r = "r1" THEN "u1" ELSE "u2"

NoVerification ==
    [st |-> "none",
     OriginalTask |-> [ID |-> 0, Title |-> <<>>, Description |-> <<>>],
     OriginalSender |-> NoUser, OriginalContent |-> <<>>, HasImage |-> FALSE,
     RetryCount |-> 0, due |-> 0, creates |-> 0, matched |-> FALSE,
     checks |-> 0, calls |-> <<>>]

\* Bot.startTaskVerification: the record and its first timer
startTaskVerification(task, sender, content, hasImage, t) ==
    [st |-> "timer",
     OriginalTask |-> task,
     OriginalSender |-> sender, OriginalContent |-> content, HasImage |-> hasImage,
     RetryCount |-> 0, due |-> t + VerifyDelay, creates |-> 0, matched |-> FALSE,
     checks |-> 0, calls |-> <<>>]

\* the lists the remote board may answer a verification with
RemoteTasks ==
    {WireTask(RecordTaskId(r), ti, <<"c">>, <<"f">>) : r \in Records, ti \in Titles}
    \cup {WireTask(RecordTaskId(r), ti, <<>>, <<>>) : r \in Records, ti \in Titles}
    \cup {WireTask(RecordTaskId(r), ti \o Mark, <<"c">>, <<"f">>) : r \in Records, ti \in Titles}
    \cup {WireTask(NewTaskId, ti \o Mark, <<"c">>, <<"f">>) : ti \in Titles}
RemoteLists == {<<>>} \cup {<<t>> : t \in RemoteTasks}

VerifyOutcomes ==
    {Response(404, NoBody)} \cup {Response(StatusOK, ListBody(l)) : l \in RemoteLists}
CreateResults ==
    {Response(404, NoBody), Response(StatusCreated, IdBody(0)),
     Response(StatusCreated, IdBody(NewTaskId))}
UploadResults == {Response(404, NoBody), Response(StatusCreated, NoBody)}

\* a call of the client whose last attempt met out ends with an error
CallFailed(op, out) ==
    ~(out.k = "resp" /\ out.status = SuccessStatus(op) /\ (op = "GetTasks" => out.body.ok))

\* Client.GetTasks as one step: the cache when it is fresh, else the remote's
\* answer, stored in the cache when it is a list
GetTasksCall(ch, hp, used, t, out) ==
    IF CacheFresh(ch, t)
    THEN [hit |-> TRUE, err |-> FALSE, tasks |-> View(CopyTasks(ch.Tasks), hp),
          cache |-> ch, heap |-> hp]
    ELSE IF CallFailed("GetTasks", out)
    THEN [hit |-> FALSE, err |-> TRUE, tasks |-> <<>>, cache |-> ch, heap |-> hp]
    ELSE LET b == FreeBlock(used)
             data == DecodeList(out.body.data, b)
         IN  [hit |-> FALSE, err |-> FALSE,
              tasks |-> out.body.data,
              cache |-> [Tasks |-> CopyTasks(data), UpdatedAt |-> t],
              heap |-> Sweep([hp EXCEPT ![b] = DecodeBlock(out.body.data)], BlocksOf(data))]

\* the search loop of verifyTask: the index of the first task with the id, or 0
FindTask(tasks, id) ==
    IF \E i \in DOMAIN tasks : tasks[i].ID = id
    THEN CHOOSE i \in DOMAIN tasks :
            tasks[i].ID = id /\ \A j \in DOMAIN tasks : tasks[j].ID = id => i <= j
    ELSE 0

\* verifyTaskContent comparing the titles only
verifyTaskContent_TitleOnly(task, v) ==
    /\ task.Title = v.OriginalTask.Title
    /\ (v.RetryCount > 0 => Contains(task.Title, Mark))

\* verifyTaskContent
verifyTaskContent(task, v) ==
    /\ task.Title = v.OriginalTask.Title
    /\ (v.RetryCount > 0 => Contains(task.Title, Mark))
    /\ (v.OriginalContent # <<>> => Contains(task.Description, v.OriginalContent))

\* verifyTaskAttachments
verifyTaskAttachments(task) == Len(task.Attachments) > 0

\* the comparisons of verifyTask: "ok" or the reason of the failure
CheckTask(tasks, v) ==
    LET i == FindTask(tasks, v.OriginalTask.ID)
    IN  IF i = 0 THEN "not_found"
        ELSE IF ~verifyTaskContent(tasks[i], v) THEN "content"
        ELSE IF v.HasImage /\ ~verifyTaskAttachments(tasks[i]) THEN "attachment"
        ELSE "ok"

\* the identifier handlePhoto gives the attachment of a task created at t, and
\* the one handleVerificationFailure gives the attachment it uploads at t
ImgAttachmentID(t) == <<"img", t>>
RetryAttachmentID(t) == <<"retry", t>>

\* what handleVerificationFailure calls, in order, when the re-creation succeeds:
\* CreateTask(&newTask), UploadAttachment(newTask.ID, attachment, ...) when an
\* image is held, time.AfterFunc
CorrectiveCalls(v, cr, t) ==
    <<<<"CreateTask", v.OriginalTask.ID, v.OriginalTask.Title \o Mark,
        v.OriginalTask.Description>>>>
    \o (IF v.HasImage
        THEN <<<<"UploadAttachment", CreateTaskID(v.OriginalTask.ID, cr),
                 RetryAttachmentID(t)>>>>
        ELSE <<>>)
    \o <<<<"AfterFunc", t + VerifyDelay>>>>

\* the record stops: no timer is pending and nothing refers to the record any
\* more; what is kept of it is its sender, its counter and the history
Stop(v, matched) ==
    [NoVerification EXCEPT !.st = "stopped", !.OriginalSender = v.OriginalSender,
                           !.RetryCount = v.RetryCount, !.creates = v.creates,
                           !.matched = matched]

\* handleVerificationFailure counting nothing
handleVerificationFailure_NoCount(v, cr, ur, t) ==
    IF CallFailed("CreateTask", cr) \/ (v.HasImage /\ CallFailed("UploadAttachment", ur))
    THEN [v |-> Stop([v EXCEPT !.creates = @ + 1], FALSE), notify |-> TRUE]
    ELSE [v |-> [v EXCEPT !.creates = @ + 1, !.due = t + VerifyDelay,
                          !.OriginalTask.Title = @ \o Mark,
                          !.OriginalTask.ID = CreateTaskID(@, cr),
                          !.calls = CorrectiveCalls(v, cr, t)],
          notify |-> FALSE]

\* handleVerificationFailure telling the users of the first mismatch as well
handleVerificationFailure_NotifyFirst(v, cr, ur, t) ==
    IF v.RetryCount = 0
       /\ ~CallFailed("CreateTask", cr)
       /\ ~(v.HasImage /\ CallFailed("UploadAttachment", ur))
    THEN [v |-> [v EXCEPT !.creates = @ + 1,
                          !.RetryCount = @ + 1,
                          !.OriginalTask.Title = @ \o Mark,
                          !.OriginalTask.ID = CreateTaskID(@, cr),
                          !.due = t + VerifyDelay,
                          !.calls = CorrectiveCalls(v, cr, t)],
          notify |-> TRUE]
    ELSE [v |-> Stop([v EXCEPT !.creates = @ + IF v.RetryCount = 0 THEN 1 ELSE 0], FALSE),
          notify |-> TRUE]

\* Bot.handleVerificationFailure: the record after it and whether notifyError
\* was called; cr and ur are what the calls of CreateTask and UploadAttachment
\* meet when they are made
handleVerificationFailure(v, cr, ur, t) ==
    IF v.RetryCount = 0
    THEN IF CallFailed("CreateTask", cr)
         THEN [v |-> Stop([v EXCEPT !.creates = @ + 1], FALSE), notify |-> TRUE]
         ELSE IF v.HasImage /\ CallFailed("UploadAttachment", ur)
         THEN [v |-> Stop([v EXCEPT !.creates = @ + 1], FALSE), notify |-> TRUE]
         ELSE [v |-> [v EXCEPT !.creates = @ + 1,
                               !.RetryCount = @ + 1,
                               !.OriginalTask.Title = @ \o Mark,
                               !.OriginalTask.ID = CreateTaskID(@, cr),
                               !.due = t + VerifyDelay,
                               !.calls = CorrectiveCalls(v, cr, t)],
               notify |-> FALSE]
    ELSE [v |-> Stop(v, FALSE), notify |-> TRUE]

\* verifyTask returning without a word when GetTasks fails
verifyTask_SilentOnError(v, g, cr, ur, t) ==
    IF g.err THEN [v |-> Stop(v, FALSE), notify |-> FALSE]
    ELSE IF CheckTask(g.tasks, v) = "ok" THEN [v |-> Stop(v, TRUE), notify |-> FALSE]
    ELSE handleVerificationFailure(v, cr, ur, t)

\* verifyTask scheduling one more check after a check that passed
verifyTask_RecheckOnMatch(v, g, cr, ur, t) ==
    IF g.err THEN [v |-> Stop(v, FALSE), notify |-> TRUE]
    ELSE IF CheckTask(g.tasks, v) = "ok"
    THEN [v |-> [v EXCEPT !.matched = TRUE, !.due = t + VerifyDelay], notify |-> FALSE]
    ELSE handleVerificationFailure(v, cr, ur, t)

\* Bot.verifyTask on the answer g of GetTasks
verifyTask(v, g, cr, ur, t) ==
    IF g.err THEN [v |-> Stop(v, FALSE), notify |-> TRUE]
    ELSE IF CheckTask(g.tasks, v) = "ok" THEN [v |-> Stop(v, TRUE), notify |-> FALSE]
    ELSE handleVerificationFailure(v, cr, ur, t)

\* the loop over the administrators: one send each, whatever the sends before
RECURSIVE AdminSends(_, _)
AdminSends(admins, fails) ==
    IF admins = {} THEN <<>>
    ELSE LET u == CHOOSE x \in admins : TRUE
         IN  <<[to |-> u, msg |-> "admin", ok |-> u \notin fails]>>
             \o AdminSends(admins \ {u}, fails)

\* a loop over the administrators that ends at the first send that fails
RECURSIVE AdminSendsUntilFailure(_, _)
AdminSendsUntilFailure(admins, fails) ==
    IF admins = {} THEN <<>>
    ELSE LET u == CHOOSE x \in admins : TRUE
         IN  <<[to |-> u, msg |-> "admin", ok |-> u \notin fails]>>
             \o (IF u \in fails THEN <<>> ELSE AdminSendsUntilFailure(admins \ {u}, fails))

\* notifyError giving up at the first send that fails
notifyError_StopOnFailure(v, roles, fails) ==
    <<[to |-> v.OriginalSender, msg |-> "error", ok |-> v.OriginalSender \notin fails]>>
    \o (IF v.OriginalSender \in fails THEN <<>>
        ELSE AdminSendsUntilFailure({u \in Users : roles[u] = RoleAdmin}, fails))

\* Bot.notifyError: the sends it attempts, in order; fails are the users
\* Telegram cannot deliver to
notifyError(v, roles, fails) ==
    <<[to |-> v.OriginalSender, msg |-> "error", ok |-> v.OriginalSender \notin fails]>>
    \o AdminSends({u \in Users : roles[u] = RoleAdmin}, fails)

FailSets == {{}} \cup {{u} : u \in Users}

\* the reason notifyError is given: a fixed text from verifyTask, or the text
\* of handleVerificationFailure with the error of the client in it
Reason(v, g, cr, ur) ==
    IF g.err THEN <<"fetch">>
    ELSE IF v.RetryCount > 0 THEN <<CheckTask(g.tasks, v)>>
    ELSE IF CallFailed("CreateTask", cr) THEN <<"recreate", cr.status>>
    ELSE <<"reupload", ur.status>>

\* notifyError: the text for the sender and the text for the administrators
errorMsg(reason) == <<"problem">> \o reason \o <<"contact_admin">>
adminMsg(v, reason) ==
    <<"failure">> \o reason
    \o <<v.OriginalSender, v.OriginalContent, v.OriginalTask.Title, v.RetryCount + 1>>

NoTold == [reason |-> <<>>, user |-> <<>>, admin |-> <<>>]

-----------------------------------------------------------------------------
(* formatTaskNotification: the description in the text of a notification *)

\* a Go string is its UTF-8 bytes: the character "a" is one byte; "w" stands
\* for a Cyrillic letter, which is the two bytes "w1" "w2"
Utf8(ch) == IF ch = "a" THEN <<"a">> ELSE <<"w1", "w2">>

\* the bytes of a string, from the bytes of its two halves
RECURSIVE Bytes(_)
Bytes(chars) ==
    IF chars = <<>> THEN <<>>
    ELSE IF Len(chars) = 1 THEN Utf8(chars[1])
    ELSE LET h == Len(chars) \div 2
         IN  Bytes(SubSeq(chars, 1, h)) \o Bytes(SubSeq(chars, h + 1, Len(chars)))

Ellipsis == <<".", ".", ".">>

\* the descriptions of the model: i times "a", then j times "w"
Description(i, j) == [k \in 1..(i + j) |-> IF k <= i THEN "a" ELSE "w"]
AsciiLens == (DescLimit - Margin)..(DescLimit + 1)
WideLens == 0..MaxWide

\* formatTaskNotification: what it appends to the text for the description
\* desc: len(desc) and desc[:descLen] count bytes
formatTaskNotification(desc) ==
    IF desc = <<>> THEN <<>>
    ELSE LET descLen == IF Len(desc) > DescLimit THEN DescLimit ELSE Len(desc)
         IN  SubSeq(desc, 1, descLen) \o (IF Len(desc) > DescLimit THEN Ellipsis ELSE <<>>)

NoNotice == [stage |-> "none", chars |-> <<>>, text |-> <<>>]

-----------------------------------------------------------------------------
(* The handlers that create a task: handleSkip, handleTaskText, handlePhoto *)

\* the caption handlePhoto gives a photo that has none, and the comments and
\* captions of the model
Placeholder == <<"p">>
Comments == {<<"c">>}
Captions == {<<>>, <<"c">>}

\* what the remote may answer the CreateTask of the handler of record r with
FirstCreateResults(r) ==
    {Response(404, NoBody), Response(StatusCreated, IdBody(RecordTaskId(r)))}

NoFlow ==
    [kind |-> "none", calls |-> <<>>, createErr |-> FALSE, uploadErr |-> FALSE,
     stored |-> FALSE]

\* handleTaskText scheduling the check whatever CreateTask returned
handleTaskText_VerifyAlways(title, msg, sender, cr, t) ==
    LET task == [ID |-> 0, Title |-> title, Description |-> msg]
        created == [task EXCEPT !.ID = CreateTaskID(@, cr)]
    IN  [flow |-> [NoFlow EXCEPT
                     !.kind = "text",
                     !.createErr = CallFailed("CreateTask", cr),
                     !.stored = TRUE,
                     !.calls = <<<<"CreateTask", task.ID, task.Title, task.Description>>,
                                 <<"AddTask", created.ID>>, <<"SaveData">>,
                                 <<"AfterFunc", t + VerifyDelay>>, <<"Send", "ok">>>>],
         v |-> startTaskVerification(created, sender, msg, FALSE, t)]

\* Bot.handleTaskText in the stage "waiting_comment": the calls it makes, in
\* order, and the verification record it starts
handleTaskText(title, msg, sender, cr, t) ==
    LET task == [ID |-> 0, Title |-> title, Description |-> msg]
        created == [task EXCEPT !.ID = CreateTaskID(@, cr)]
        create == <<"CreateTask", task.ID, task.Title, task.Description>>
    IN  IF CallFailed("CreateTask", cr)
        THEN [flow |-> [NoFlow EXCEPT !.kind = "text", !.createErr = TRUE,
                                      !.calls = <<create, <<"Send", "error">>>>],
              v |-> NoVerification]
        ELSE [flow |-> [NoFlow EXCEPT
                          !.kind = "text", !.stored = TRUE,
                          !.calls = <<create, <<"AddTask", created.ID>>, <<"SaveData">>,
                                      <<"AfterFunc", t + VerifyDelay>>, <<"Send", "ok">>>>],
              v |-> startTaskVerification(created, sender, msg, FALSE, t)]

\* Bot.handleSkip
handleSkip(title, sender, cr, t) ==
    LET task == [ID |-> 0, Title |-> title, Description |-> <<>>]
        created == [task EXCEPT !.ID = CreateTaskID(@, cr)]
        create == <<"CreateTask", task.ID, task.Title, task.Description>>
    IN  IF CallFailed("CreateTask", cr)
        THEN [flow |-> [NoFlow EXCEPT !.kind = "skip", !.createErr = TRUE,
                                      !.calls = <<create, <<"Send", "error">>>>],
              v |-> NoVerification]
        ELSE [flow |-> [NoFlow EXCEPT
                          !.kind = "skip", !.stored = TRUE,
                          !.calls = <<create, <<"AddTask", created.ID>>, <<"SaveData">>,
                                      <<"AfterFunc", t + VerifyDelay>>, <<"Send", "ok">>>>],
              v |-> startTaskVerification(created, sender, <<>>, FALSE, t)]

\* handlePhoto giving up when the upload fails
handlePhoto_AbortOnUploadError(title, text, sender, cr, ur, t) ==
    LET caption == IF text = <<>> THEN Placeholder ELSE text
        task == [ID |-> 0, Title |-> title, Description |-> caption]
        created == [task EXCEPT !.ID = CreateTaskID(@, cr)]
        create == <<"CreateTask", task.ID, task.Title, task.Description>>
        upload == <<"UploadAttachment", created.ID, ImgAttachmentID(t)>>
    IN  IF CallFailed("CreateTask", cr)
        THEN [flow |-> [NoFlow EXCEPT !.kind = "photo", !.createErr = TRUE,
                                      !.calls = <<create, <<"Send", "error">>>>],
              v |-> NoVerification]
        ELSE IF CallFailed("UploadAttachment", ur)
        THEN [flow |-> [NoFlow EXCEPT !.kind = "photo", !.uploadErr = TRUE,
                                      !.calls = <<create, upload, <<"Send", "error">>>>],
              v |-> NoVerification]
        ELSE [flow |-> [NoFlow EXCEPT
                          !.kind = "photo", !.stored = TRUE,
                          !.calls = <<create, upload, <<"AddTask", created.ID>>, <<"SaveData">>,
                                      <<"AfterFunc", t + VerifyDelay>>, <<"Send", "ok">>>>],
              v |-> startTaskVerification(created, sender, caption, TRUE, t)]

\* Bot.handlePhoto once the photo is read into memory; text is the caption of
\* the message
handlePhoto(title, text, sender, cr, ur, t) ==
    LET caption == IF text = <<>> THEN Placeholder ELSE text
        task == [ID |-> 0, Title |-> title, Description |-> caption]
        created == [task EXCEPT !.ID = CreateTaskID(@, cr)]
        create == <<"CreateTask", task.ID, task.Title, task.Description>>
        upload == <<"UploadAttachment", created.ID, ImgAttachmentID(t)>>
    IN  IF CallFailed("CreateTask", cr)
        THEN [flow |-> [NoFlow EXCEPT !.kind = "photo", !.createErr = TRUE,
                                      !.calls = <<create, <<"Send", "error">>>>],
              v |-> NoVerification]
        ELSE [flow |-> [NoFlow EXCEPT
                          !.kind = "photo", !.stored = TRUE,
                          !.uploadErr = CallFailed("UploadAttachment", ur),
                          !.calls = <<create, upload, <<"AddTask", created.ID>>, <<"SaveData">>,
                                      <<"AfterFunc", t + VerifyDelay>>, <<"Send", "ok">>>>],
              v |-> startTaskVerification(created, sender, caption, TRUE, t)]

\* what the environment may answer a call with: one arbitrary answer when the
\* call is not made
Asked(skipped, answers) == IF skipped THEN {CHOOSE a \in answers : TRUE} ELSE answers

-----------------------------------------------------------------------------
(* The remote board, as the verification loop meets it *)

\* the identifiers of the board: those of the tasks the handlers create and
\* those the board gives the tasks created again
RecreatedId(r) == NewTaskId + RecordTaskId(r) - 1
BoardIds == {RecordTaskId(r) : r \in Records} \cup {RecreatedId(r) : r \in Records}
NoTask == WireTask(0, <<>>, <<>>, <<>>)
NoBoard == [i \in BoardIds |-> NoTask]

\* what the board answers GET /tasks with: the tasks it holds
BoardList(b) ==
    LET n == Cardinality(BoardIds)
        all == [i \in 1..n |-> b[i]]
    IN  SelectSeq(all, LAMBDA t : t.ID # 0)

\* how the board keeps a task it is asked to create: as it was sent, without
\* its description, or not at all
Keeps == {"sent", "cut", "lost"}
BoardCreate(b, id, title, content, hasImage, how) ==
    IF how = "lost" THEN b
    ELSE [b EXCEPT ![id] = WireTask(id, title, IF how = "cut" THEN <<>> ELSE content,
                                    IF hasImage THEN <<"f">> ELSE <<>>)]

-----------------------------------------------------------------------------
(* checkNewTasks: the poll for new tasks and Storage.knownTasks *)

\* the tasks a poll may be given: an identifier and whether the task is done
PollIds == {1, 2, 3}
PollTasks == {[ID |-> i, Done |-> d] : i \in PollIds, d \in BOOLEAN}
PollLists == {<<>>} \cup {<<t>> : t \in PollTasks} \cup {<<t, u>> : t, u \in PollTasks}

\* the key of Storage.knownTasks: fmt.Sprintf("%d", taskID)
KnownKey(taskID) == <<"%d", taskID>>

\* Storage.IsKnownTask and Storage.AddKnownTask
IsKnownTask(known, taskID) == KnownKey(taskID) \in known
AddKnownTask(known, taskID) == known \cup {KnownKey(taskID)}

\* no task is known, nothing has happened
NoPoll == [known |-> {}, log |-> <<>>, again |-> FALSE]

\* the body of the loop of checkNewTasks, notifying without a look at the
\* known tasks
checkNewTask_NoLookup(p, task) ==
    [p EXCEPT !.known = AddKnownTask(@, task.ID),
              !.log = @ \o <<[ev |-> "known", id |-> task.ID, done |-> task.Done]>>
                        \o (IF ~task.Done
                            THEN <<[ev |-> "notify", id |-> task.ID, done |-> FALSE]>>
                            ELSE <<>>)]

\* the body of the loop of checkNewTasks for one task of the list
checkNewTask(p, task) ==
    IF ~IsKnownTask(p.known, task.ID)
    THEN [p EXCEPT !.known = AddKnownTask(@, task.ID),
                   !.log = @ \o <<[ev |-> "known", id |-> task.ID, done |-> task.Done]>>
                             \o (IF ~task.Done
                                 THEN <<[ev |-> "notify", id |-> task.ID, done |-> FALSE]>>
                                 ELSE <<>>)]
    ELSE [p EXCEPT !.again = TRUE]

\* checkNewTasks once GetTasks has returned the list tasks
RECURSIVE checkNewTasks(_, _)
checkNewTasks(p, tasks) ==
    IF tasks = <<>> THEN p
    ELSE checkNewTasks(checkNewTask(p, Head(tasks)), Tail(tasks))

-----------------------------------------------------------------------------
(* Storage: the lock s.mu, isDirty, and the methods that take the lock *)

\* the goroutines that call methods of the one Storage: the save ticker of
\* main, and two handlers
StoreProcs == {"g1", "g2", "g3"}

\* the methods: SaveData, a method that writes under Lock and sets isDirty
\* (AddTask, AddKnownTask, UpdateUser, ...), a method that reads under RLock
\* (GetUser, IsKnownTask, ...), and SaveTaskTemplates
StoreMethods == {"SaveData", "Mutator", "Reader", "SaveTaskTemplates"}

\* where a goroutine is: about to call s.mu.Lock(), about to call
\* s.mu.RLock(), or inside the section that follows
LockWaits == {"s_lock", "m_lock", "t_lock", "s_nested"}
RLockWaits == {"s_rlock", "r_rlock"}
SaveDataPcs == {"s_rlock", "s_check", "s_lock", "s_save", "s_nested", "s_templates"}

\* the first program point of a method
Entry(method) ==
    CASE method = "SaveData" -> "s_rlock"
      [] method = "Mutator" -> "m_lock"
      [] method = "Reader" -> "r_rlock"
      [] method = "SaveTaskTemplates" -> "t_lock"

\* the program point after s.mu.Lock() or s.mu.RLock() has returned
Locked(pc) ==
    CASE pc = "s_rlock" -> "s_check"
      [] pc = "r_rlock" -> "r_read"
      [] pc = "s_lock" -> "s_save"
      [] pc = "m_lock" -> "m_write"
      [] pc = "t_lock" -> "t_save"
      [] pc = "s_nested" -> "s_templates"

\* sync.RWMutex: RLock returns at once when no writer holds the lock and none
\* waits for it; Lock returns when nobody holds the lock, the caller included
StoreCanRLock(st) ==
    st.writer = NoProc /\ \A h \in StoreProcs : st.pc[h] \notin LockWaits
StoreCanLock(st) == st.writer = NoProc /\ st.readers = {}

\* sync.RWMutex: Unlock hands the lock to the readers that were blocked by
\* the writer, before the next writer can take it
StoreUnlock(st) ==
    [st EXCEPT !.writer = NoProc,
               !.readers = {h \in StoreProcs : st.pc[h] \in RLockWaits},
               !.pc = [h \in StoreProcs |->
                          IF st.pc[h] \in RLockWaits THEN Locked(st.pc[h])
                          ELSE st.pc[h]]]

\* the files SaveData writes, in order; 0 stands for no failure
SaveFiles == 1..5

NoStore ==
    [writer |-> NoProc, readers |-> {}, isDirty |-> FALSE,
     pc |-> [g \in StoreProcs |-> "idle"], saves |-> 0]

\* SaveData: the check of isDirty under the read lock, and RUnlock
SaveDataCheck(st, g) ==
    [st EXCEPT !.readers = @ \ {g},
               !.pc[g] = IF st.isDirty THEN "s_lock" ELSE "idle"]

\* SaveData saving the templates through SaveTaskTemplates, which locks s.mu
SaveDataSave_NestedLock(st, g, fail) ==
    IF fail \in SaveFiles \ {5}
    THEN [StoreUnlock(st) EXCEPT !.pc[g] = "idle"]
    ELSE [st EXCEPT !.pc[g] = "s_nested"]

\* SaveData under the write lock: the five saveJSON calls, of which the one
\* numbered fail returns an error, and the deferred Unlock
SaveDataSave(st, g, fail) ==
    IF fail \in SaveFiles
    THEN [StoreUnlock(st) EXCEPT !.pc[g] = "idle"]
    ELSE [StoreUnlock(st) EXCEPT !.pc[g] = "idle", !.isDirty = FALSE, !.saves = 1]

-----------------------------------------------------------------------------
(* Actions of the client *)

Init ==
    /\ retryCount = DefaultRetryCount
    /\ retryWait = DefaultRetryWait
    /\ maxRetryElapsed = DefaultMaxRetryElapsed
    /\ cache = [Tasks |-> <<>>, UpdatedAt |-> 0 - Expiration]
    /\ mu = [writer |-> NoProc, readers |-> {}]
    /\ now = 0
    /\ heap = [b \in Blocks |-> <<>>]
    /\ call = [p \in Procs |-> IdleCall]
    /\ ret = [p \in Procs |-> <<>>]
    /\ ghost = [tasks |-> NoFetch, time |-> NoFetch, data |-> <<>>, at |-> 0, read |-> 0]
    /\ prev = [valid |-> FALSE, data |-> <<>>, at |-> 0, fid |-> NoFetch]
    /\ mutated = [p \in Procs |-> FALSE]
    /\ verif = [r \in Records |-> NoVerification]
    /\ users = [u \in Users |-> IF u = FirstUser THEN RoleAdmin ELSE RoleUser]
    /\ sent = [r \in Records |-> <<>>]
    /\ flow = [r \in Records |-> NoFlow]
    /\ told = [r \in Records |-> NoTold]
    /\ notice = NoNotice
    /\ board = NoBoard
    /\ poll = NoPoll
    /\ store = NoStore

\* main configures the client before its first use
PolicyChange(count, wait, maxElapsed) ==
    /\ \A p \in Procs : call[p].pc = "idle"
    /\ LET n == SetRetryPolicy(Policy, count, wait, maxElapsed)
       IN  /\ retryCount' = n.count
           /\ retryWait' = n.wait
           /\ maxRetryElapsed' = n.maxElapsed
    /\ UNCHANGED <<cache, mu, now, heap, call, ret, ghost, prev, mutated, verif, users, sent>>
    /\ HandlersUnchanged
    /\ OthersUnchanged

\* a caller enters one of the five methods; id0 is task.ID of its argument
Start(p, op, id0) ==
    /\ call[p].pc \in {"idle", "done"}
    /\ call' = [call EXCEPT ![p] =
                  Enter([IdleCall EXCEPT !.op = op,
                                         !.pc = IF op = "GetTasks" THEN "rlock" ELSE "loop",
                                         !.idBefore = id0, !.id = id0,
                                         !.fpar = call[p].fpar])]
    /\ ret' = IF op = "GetTasks" THEN [ret EXCEPT ![p] = <<>>] ELSE ret
    /\ heap' = Sweep(heap, UsedBlocks(cache, ret', call'))
    /\ ClientUnchanged
    /\ UNCHANGED <<cache, mu, now, ghost, prev, mutated, verif, users, sent>>
    /\ HandlersUnchanged
    /\ OthersUnchanged

\* one iteration of retryOperation in CreateTask, UpdateTask, UploadAttachment,
\* AddComment; lost tells whether the remote carried out a request it then
\* failed to answer
RetryAttemptRemote(p, out, dur, jitter, lost) ==
    /\ call[p].pc = "loop"
    /\ call[p].op \in RetryOps
    /\ out \in Outcomes(call[p].op)
    /\ call' = [call EXCEPT ![p] =
                  retryOperation(Attempt(Commit(call[p], out, lost), out), out, dur, jitter,
                                 retryCount, retryWait, maxRetryElapsed)]
    /\ ClientUnchanged
    /\ UNCHANGED <<cache, mu, now, heap, ret, ghost, prev, mutated, verif, users, sent>>
    /\ HandlersUnchanged
    /\ OthersUnchanged

\* the same against a remote that carries out only what it answers with 201
RetryAttempt(p, out, dur, jitter) == RetryAttemptRemote(p, out, dur, jitter, FALSE)

\* GetTasks: c.mu.RLock()
GetTasksRLock(p) ==
    /\ call[p].pc = "rlock"
    /\ CanRLock(mu)
    /\ mu' = [mu EXCEPT !.readers = @ \cup {p}]
    /\ call' = [call EXCEPT ![p].pc = "check"]
    /\ ClientUnchanged
    /\ UNCHANGED <<cache, now, heap, ret, ghost, prev, mutated, verif, users, sent>>
    /\ HandlersUnchanged
    /\ OthersUnchanged

\* GetTasks: the cache check under the read lock, and RUnlock
GetTasksCacheCheck(p) ==
    /\ call[p].pc = "check"
    /\ mu' = [mu EXCEPT !.readers = @ \ {p}]
    /\ IF CacheFresh(cache, now)
       THEN /\ ret' = [ret EXCEPT ![p] = CopyTasks(cache.Tasks)]
            /\ call' = [call EXCEPT ![p] =
                          GetTasksReturn([call[p] EXCEPT !.pc = "done", !.hit = TRUE])]
       ELSE /\ ret' = ret
            /\ call' = [call EXCEPT ![p].pc = "loop"]
    /\ ClientUnchanged
    /\ UNCHANGED <<cache, now, heap, ghost, prev, mutated, verif, users, sent>>
    /\ HandlersUnchanged
    /\ OthersUnchanged

\* GetTasks: one iteration of the inline loop and, when the loop ends, the
\* checks and the decoding after it; stamp tells whether the history keeps
\* the time at which the list was read
GetTasksRequestStep(p, out, dur, jitter, stamp) ==
    /\ call[p].pc = "loop"
    /\ call[p].op = "GetTasks"
    /\ out \in Outcomes("GetTasks")
    /\ LET c == GetTasksAttempt(call[p], out, dur, jitter, retryCount, retryWait, maxRetryElapsed)
           b == FreeBlock(UsedBlocks(cache, ret, call))
       IN  IF c.pc = "decoded"
           THEN /\ call' = [call EXCEPT ![p] =
                              [c EXCEPT !.pc = "lock",
                                        !.data = DecodeList(out.body.data, b),
                                        !.wire = out.body.data,
                                        !.readAt = IF stamp THEN now ELSE 0,
                                        !.fpar = 1 - @]]
                /\ heap' = [heap EXCEPT ![b] = DecodeBlock(out.body.data)]
           ELSE /\ call' = [call EXCEPT ![p] = IF c.pc = "done" THEN GetTasksReturn(c) ELSE c]
                /\ heap' = heap
    /\ ClientUnchanged
    /\ UNCHANGED <<cache, mu, now, ret, ghost, prev, mutated, verif, users, sent>>
    /\ HandlersUnchanged
    /\ OthersUnchanged

GetTasksRequest(p, out, dur, jitter) == GetTasksRequestStep(p, out, dur, jitter, FALSE)

\* the same, and the history keeps when the list was read
GetTasksRead(p, out) == GetTasksRequestStep(p, out, 0, 0, TRUE)

\* GetTasks: c.mu.Lock()
GetTasksLock(p) ==
    /\ call[p].pc = "lock"
    /\ CanLock(mu)
    /\ mu' = [mu EXCEPT !.writer = p]
    /\ call' = [call EXCEPT ![p].pc = "make"]
    /\ ClientUnchanged
    /\ UNCHANGED <<cache, now, heap, ret, ghost, prev, mutated, verif, users, sent>>
    /\ HandlersUnchanged
    /\ OthersUnchanged

\* GetTasks: c.cache.Tasks = make(...)
GetTasksStoreMake(p) ==
    /\ call[p].pc = "make"
    /\ cache' = [cache EXCEPT !.Tasks = MakeTasks(Len(call[p].data))]
    /\ ghost' = [ghost EXCEPT !.tasks = Fid(p, call[p]), !.data = call[p].wire,
                           !.read = call[p].readAt]
    /\ call' = [call EXCEPT ![p].pc = "copy"]
    /\ heap' = Sweep(heap, UsedBlocks(cache', ret, call'))
    /\ ClientUnchanged
    /\ UNCHANGED <<mu, now, ret, prev, mutated, verif, users, sent>>
    /\ HandlersUnchanged
    /\ OthersUnchanged

\* GetTasks: copy(c.cache.Tasks, result.Data)
GetTasksStoreCopy(p) ==
    /\ call[p].pc = "copy"
    /\ cache' = [cache EXCEPT !.Tasks = CopyTasks(call[p].data)]
    /\ call' = [call EXCEPT ![p].pc = "time"]
    /\ ClientUnchanged
    /\ UNCHANGED <<mu, now, heap, ret, ghost, prev, mutated, verif, users, sent>>
    /\ HandlersUnchanged
    /\ OthersUnchanged

\* GetTasks: c.cache.UpdatedAt = time.Now(), Unlock, return result.Data
GetTasksStoreTime(p) ==
    /\ call[p].pc = "time"
    /\ cache' = [cache EXCEPT !.UpdatedAt = now]
    /\ ghost' = [ghost EXCEPT !.time = Fid(p, call[p]), !.at = now]
    /\ mu' = [mu EXCEPT !.writer = NoProc]
    /\ ret' = [ret EXCEPT ![p] = call[p].data]
    /\ call' = [call EXCEPT ![p] =
                  GetTasksReturn([call[p] EXCEPT !.pc = "done", !.data = <<>>, !.readAt = 0])]
    /\ prev' = IF p = Caller
               THEN [valid |-> TRUE, data |-> call[p].wire, at |-> now, fid |-> Fid(p, call[p])]
               ELSE prev
    /\ ClientUnchanged
    /\ UNCHANGED <<now, heap, mutated, verif, users, sent>>
    /\ HandlersUnchanged
    /\ OthersUnchanged

\* a minute passes
Tick ==
    /\ now < MaxTime
    /\ now' = now + 1
    /\ ClientUnchanged
    /\ UNCHANGED <<cache, mu, heap, call, ret, ghost, prev, mutated, verif, users, sent>>
    /\ HandlersUnchanged
    /\ OthersUnchanged

\* what a caller writes into a list it was given
Scribble == "x"

\* the caller of a finished GetTasks call changes element i of the list it was
\* given: kind "field" assigns tasks[i].Title, kind "nested" assigns
\* tasks[i].Attachments[0]
Mutate(p, i, kind) ==
    /\ call[p].pc = "done"
    /\ call[p].op = "GetTasks"
    /\ i \in DOMAIN ret[p]
    /\ \/ /\ kind = "field"
          /\ ret[p][i].Title # <<Scribble>>
          /\ ret' = [ret EXCEPT ![p][i].Title = <<Scribble>>]
          /\ heap' = heap
       \/ /\ kind = "nested"
          /\ ret[p][i].Attachments.blk # 0
          /\ LET h == ret[p][i].Attachments
             IN  /\ heap[h.blk][h.idx][1] # Scribble
                 /\ heap' = [heap EXCEPT ![h.blk][h.idx][1] = Scribble]
          /\ ret' = ret
    /\ mutated' = [mutated EXCEPT ![p] = ~@]
    /\ ClientUnchanged
    /\ UNCHANGED <<cache, mu, now, call, ghost, prev, verif, users, sent>>
    /\ HandlersUnchanged
    /\ OthersUnchanged

-----------------------------------------------------------------------------
(* Actions of the bot *)

\* a task handler has created the task of record r and starts its verification
StartVerification(r, title, content, hasImage) ==
    /\ verif[r].st = "none"
    /\ now + 2 * VerifyDelay <= MaxVerifyTime
    /\ verif' = [verif EXCEPT ![r] =
                   startTaskVerification(
                       [ID |-> RecordTaskId(r), Title |-> title, Description |-> content],
                       RecordSender(r), content, hasImage, now)]
    /\ ClientUnchanged
    /\ UNCHANGED <<cache, mu, now, heap, call, ret, ghost, prev, mutated, users, sent>>
    /\ HandlersUnchanged
    /\ OthersUnchanged

\* the timer of record r fires, when it is due: verifyTask, with
\* handleVerificationFailure and notifyError when it calls them
VerifyTaskStep(r, keep) ==
    /\ verif[r].st = "timer"
    /\ now = verif[r].due
    /\ \E out \in Asked(CacheFresh(cache, now), VerifyOutcomes) :
          LET g == GetTasksCall(cache, heap, UsedBlocks(cache, ret, call), now, out)
              creates == ~g.err /\ CheckTask(g.tasks, verif[r]) # "ok" /\ verif[r].RetryCount = 0
          IN  \E cr \in Asked(~creates, CreateResults) :
              \E ur \in Asked(~creates \/ CallFailed("CreateTask", cr) \/ ~verif[r].HasImage,
                              UploadResults) :
                 LET step == verifyTask(verif[r], g, cr, ur, now)
                 IN  \E fails \in Asked(~step.notify, FailSets) :
                        /\ verif' = [verif EXCEPT ![r] =
                                       [step.v EXCEPT !.checks = verif[r].checks + 1]]
                        /\ sent' = IF step.notify
                                   THEN [sent EXCEPT ![r] = @ \o notifyError(verif[r], users, fails)]
                                   ELSE sent
                        /\ told' = IF keep /\ step.notify
                                   THEN LET reason == Reason(verif[r], g, cr, ur)
                                        IN  [told EXCEPT ![r] =
                                               [reason |-> reason,
                                                user |-> errorMsg(reason),
                                                admin |-> adminMsg(verif[r], reason)]]
                                   ELSE told
                        /\ cache' = g.cache
                        /\ heap' = g.heap
    /\ ClientUnchanged
    /\ UNCHANGED <<mu, now, call, ret, ghost, prev, mutated, users>>
    /\ UNCHANGED <<flow, notice>>
    /\ OthersUnchanged

\* the timer of record r fires
VerifyTask(r) == VerifyTaskStep(r, FALSE)

\* the timer of record r fires, and the texts notifyError sends are kept
VerifyTaskTold(r) == VerifyTaskStep(r, TRUE)

\* the handlers of the sender of record r, who has given the title
HandleSkip(r, title, cr) ==
    /\ flow[r].kind = "none"
    /\ verif[r].st = "none"
    /\ now + 2 * VerifyDelay <= MaxVerifyTime
    /\ cr \in FirstCreateResults(r)
    /\ LET h == handleSkip(title, RecordSender(r), cr, now)
       IN  /\ flow' = [flow EXCEPT ![r] = h.flow]
           /\ verif' = [verif EXCEPT ![r] = h.v]
    /\ ClientUnchanged
    /\ UNCHANGED <<cache, mu, now, heap, call, ret, ghost, prev, mutated, users, sent,
                   told, notice>>
    /\ OthersUnchanged

HandleTaskText(r, title, msg, cr) ==
    /\ flow[r].kind = "none"
    /\ verif[r].st = "none"
    /\ now + 2 * VerifyDelay <= MaxVerifyTime
    /\ cr \in FirstCreateResults(r)
    /\ LET h == handleTaskText(title, msg, RecordSender(r), cr, now)
       IN  /\ flow' = [flow EXCEPT ![r] = h.flow]
           /\ verif' = [verif EXCEPT ![r] = h.v]
    /\ ClientUnchanged
    /\ UNCHANGED <<cache, mu, now, heap, call, ret, ghost, prev, mutated, users, sent,
                   told, notice>>
    /\ OthersUnchanged

HandlePhoto(r, title, text, cr, ur) ==
    /\ flow[r].kind = "none"
    /\ verif[r].st = "none"
    /\ now + 2 * VerifyDelay <= MaxVerifyTime
    /\ cr \in FirstCreateResults(r)
    /\ LET h == handlePhoto(title, text, RecordSender(r), cr, ur, now)
       IN  /\ flow' = [flow EXCEPT ![r] = h.flow]
           /\ verif' = [verif EXCEPT ![r] = h.v]
    /\ ClientUnchanged
    /\ UNCHANGED <<cache, mu, now, heap, call, ret, ghost, prev, mutated, users, sent,
                   told, notice>>
    /\ OthersUnchanged

\* handlePromoteAdmin and handleDemoteAdmin: administrator by changes the role
\* of user u
RoleChange(by, u) ==
    /\ users[by] = RoleAdmin
    /\ users' = [users EXCEPT ![u] = IF @ = RoleAdmin THEN RoleUser ELSE RoleAdmin]
    /\ ClientUnchanged
    /\ UNCHANGED <<cache, mu, now, heap, call, ret, ghost, prev, mutated, verif, sent>>
    /\ HandlersUnchanged
    /\ OthersUnchanged

\* a minute passes under SpecRace
RaceTick ==
    /\ now < MaxRaceTime
    /\ Tick

\* a task handler creates the task of record r on the board and starts its
\* verification
BoardStart(r, title, content, hasImage, how) ==
    /\ verif[r].st = "none"
    /\ now + VerifyDelay <= MaxVerifyTime
    /\ board' = BoardCreate(board, RecordTaskId(r), title, content, hasImage, how)
    /\ verif' = [verif EXCEPT ![r] =
                   startTaskVerification(
                       [ID |-> RecordTaskId(r), Title |-> title, Description |-> content],
                       RecordSender(r), content, hasImage, now)]
    /\ ClientUnchanged
    /\ UNCHANGED <<cache, mu, now, heap, call, ret, ghost, prev, mutated, users, sent>>
    /\ HandlersUnchanged
    /\ UNCHANGED <<poll, store>>

\* the timer of record r fires: verifyTask against the board, which answers
\* every request; a corrective CreateTask puts the new task on the board
BoardVerify(r) ==
    /\ verif[r].st = "timer"
    /\ now = verif[r].due
    /\ LET out == Response(StatusOK, ListBody(BoardList(board)))
           g == GetTasksCall(cache, heap, UsedBlocks(cache, ret, call), now, out)
           cr == Response(StatusCreated, IdBody(RecreatedId(r)))
           ur == Response(StatusCreated, NoBody)
           step == verifyTask(verif[r], g, cr, ur, now)
       IN  /\ verif' = [verif EXCEPT ![r] = [step.v EXCEPT !.checks = verif[r].checks + 1]]
           /\ board' = IF step.v.creates > verif[r].creates
                        THEN BoardCreate(board, RecreatedId(r),
                                         verif[r].OriginalTask.Title \o Mark,
                                         verif[r].OriginalTask.Description,
                                         verif[r].HasImage, "sent")
                        ELSE board
           /\ sent' = IF step.notify
                      THEN [sent EXCEPT ![r] = @ \o notifyError(verif[r], users, {})]
                      ELSE sent
           /\ cache' = g.cache
           /\ heap' = g.heap
    /\ ClientUnchanged
    /\ UNCHANGED <<mu, now, call, ret, ghost, prev, mutated, users>>
    /\ HandlersUnchanged
    /\ UNCHANGED <<poll, store>>

\* the ticker of main calls checkNewTasks; failed tells that GetTasks returned
\* an error, and tasks is the list it returned otherwise
CheckNewTasks(failed, tasks) ==
    /\ poll' = IF failed THEN poll ELSE checkNewTasks(poll, tasks)
    /\ UNCHANGED <<retryCount, retryWait, maxRetryElapsed, cache, mu, now, heap, call, ret,
                   ghost, prev, mutated, verif, users, sent>>
    /\ HandlersUnchanged
    /\ UNCHANGED <<board, store>>

\* what no method of Storage writes
StorageOnly ==
    /\ UNCHANGED <<retryCount, retryWait, maxRetryElapsed, cache, mu, now, heap, call, ret,
                   ghost, prev, mutated, verif, users, sent>>
    /\ HandlersUnchanged
    /\ UNCHANGED <<board, poll>>

\* goroutine g calls a method of Storage
StoreCall(g, method) ==
    /\ store.pc[g] = "idle"
    /\ store' = [store EXCEPT !.pc[g] = Entry(method)]
    /\ StorageOnly

\* s.mu.RLock() of goroutine g returns
StoreRLock(g) ==
    /\ store.pc[g] \in RLockWaits
    /\ StoreCanRLock(store)
    /\ store' = [store EXCEPT !.readers = @ \cup {g}, !.pc[g] = Locked(@)]
    /\ StorageOnly

\* s.mu.Lock() of goroutine g returns
StoreLock(g) ==
    /\ store.pc[g] \in LockWaits
    /\ StoreCanLock(store)
    /\ store' = [store EXCEPT !.writer = g, !.pc[g] = Locked(@)]
    /\ StorageOnly

\* SaveData: isDirty is read and the read lock released
StoreSaveCheck(g) ==
    /\ store.pc[g] = "s_check"
    /\ store' = SaveDataCheck(store, g)
    /\ StorageOnly

\* SaveData: the files are written and the write lock released
StoreSave(g, fail) ==
    /\ store.pc[g] = "s_save"
    /\ store' = SaveDataSave(store, g, fail)
    /\ StorageOnly

\* a writing method: the change, isDirty = true, and the deferred Unlock
StoreWrite(g) ==
    /\ store.pc[g] = "m_write"
    /\ store' = [StoreUnlock(store) EXCEPT !.isDirty = TRUE, !.pc[g] = "idle"]
    /\ StorageOnly

\* a reading method: the read and the deferred RUnlock
StoreRead(g) ==
    /\ store.pc[g] = "r_read"
    /\ store' = [store EXCEPT !.readers = @ \ {g}, !.pc[g] = "idle"]
    /\ StorageOnly

\* SaveTaskTemplates: the file is written, and the deferred Unlock
StoreTemplates(g) ==
    /\ store.pc[g] \in {"t_save", "s_templates"}
    /\ store' = [StoreUnlock(store) EXCEPT !.pc[g] = "idle"]
    /\ StorageOnly

\* a minute passes, once the timers that are due have fired
VerifyTick ==
    /\ \A r \in Records : verif[r].st = "timer" => now < verif[r].due
    /\ now < MaxVerifyTime
    /\ Tick

-----------------------------------------------------------------------------
(* Spec: one caller, every operation, every outcome the remote can produce *)

\* task.ID of the argument: not yet created, or created before
ArgIds(op) == IF op \in {"CreateTask", "UpdateTask"} THEN {0, 1} ELSE {0}

Next ==
    \/ \E n \in PolicyCounts, w \in PolicyWaits, e \in PolicyBudgets : PolicyChange(n, w, e)
    \/ \E op \in Ops : \E id0 \in ArgIds(op) : Start(Caller, op, id0)
    \/ \E op \in RetryOps : \E out \in Outcomes(op), dur \in AttemptTimes, j \in 0..(retryWait - 1) :
          RetryAttempt(Caller, out, dur, j)
    \/ GetTasksRLock(Caller)
    \/ GetTasksCacheCheck(Caller)
    \/ \E out \in Outcomes("GetTasks"), dur \in AttemptTimes, j \in 0..(retryWait - 1) :
          GetTasksRequest(Caller, out, dur, j)
    \/ GetTasksLock(Caller)
    \/ GetTasksStoreMake(Caller)
    \/ GetTasksStoreCopy(Caller)
    \/ GetTasksStoreTime(Caller)

Spec == Init /\ [][Next]_vars

-----------------------------------------------------------------------------
(* SpecCache: concurrent GetTasks calls on one client, while time passes *)

CacheOutcomes ==
    {Response(404, NoBody), Response(StatusOK, ListBody(<<>>)),
     Response(StatusOK, ListBody(ListA)), Response(StatusOK, ListBody(ListB))}

NextCache ==
    \/ \E p \in Procs : Start(p, "GetTasks", 0)
    \/ \E p \in Procs : GetTasksRLock(p)
    \/ \E p \in Procs : GetTasksCacheCheck(p)
    \/ \E p \in Procs : \E out \in CacheOutcomes : GetTasksRequest(p, out, 0, 0)
    \/ \E p \in Procs : GetTasksLock(p)
    \/ \E p \in Procs : GetTasksStoreMake(p)
    \/ \E p \in Procs : GetTasksStoreCopy(p)
    \/ \E p \in Procs : GetTasksStoreTime(p)
    \/ Tick

SpecCache == Init /\ [][NextCache]_vars

-----------------------------------------------------------------------------
(* SpecAlias: as SpecCache at one instant, with callers that write into the
   lists GetTasks gave them *)

MutationKinds == {"field", "nested"}

NextAlias ==
    \/ \E p \in Procs : Start(p, "GetTasks", 0)
    \/ \E p \in Procs : GetTasksRLock(p)
    \/ \E p \in Procs : GetTasksCacheCheck(p)
    \/ \E p \in Procs : \E out \in CacheOutcomes : GetTasksRequest(p, out, 0, 0)
    \/ \E p \in Procs : GetTasksLock(p)
    \/ \E p \in Procs : GetTasksStoreMake(p)
    \/ \E p \in Procs : GetTasksStoreCopy(p)
    \/ \E p \in Procs : GetTasksStoreTime(p)
    \/ \E p \in Procs : \E i \in 1..Len(ret[p]), kind \in MutationKinds : Mutate(p, i, kind)

SpecAlias == Init /\ [][NextAlias]_vars

-----------------------------------------------------------------------------
(* SpecVerify: the verification records of the bot, its users and the cache
   of its client; SpecVerifyFair adds that timers fire and time passes *)

NextVerify ==
    \/ \E r \in Records : \E ti \in Titles, c \in Contents, img \in BOOLEAN :
          StartVerification(r, ti, c, img)
    \/ \E r \in Records : VerifyTask(r)
    \/ \E by, u \in Users : RoleChange(by, u)
    \/ VerifyTick

SpecVerify == Init /\ [][NextVerify]_vars

SpecVerifyFair ==
    /\ SpecVerify
    /\ \A r \in Records : WF_vars(VerifyTask(r))
    /\ WF_vars(VerifyTick)

-----------------------------------------------------------------------------
(* SpecFlow: the handlers that create tasks, the verification loop behind
   them, and the texts it sends *)

NextFlow ==
    \/ \E r \in Records : \E ti \in Titles, cr \in FirstCreateResults(r) :
          HandleSkip(r, ti, cr)
    \/ \E r \in Records : \E ti \in Titles, msg \in Comments, cr \in FirstCreateResults(r) :
          HandleTaskText(r, ti, msg, cr)
    \/ \E r \in Records :
          \E ti \in Titles, text \in Captions, cr \in FirstCreateResults(r) :
             \E ur \in Asked(CallFailed("CreateTask", cr), UploadResults) :
                HandlePhoto(r, ti, text, cr, ur)
    \/ \E r \in Records : VerifyTaskTold(r)
    \/ VerifyTick

SpecFlow == Init /\ [][NextFlow]_vars

-----------------------------------------------------------------------------
(* SpecNotice: the text of a new-task notification for a task whose
   description is drawn from the descriptions of the model *)

\* a new task with the given description is found on the board
NewTask(i, j) ==
    /\ notice.stage = "none"
    /\ notice' = [NoNotice EXCEPT !.stage = "new", !.chars = Description(i, j)]
    /\ ClientUnchanged
    /\ UNCHANGED <<cache, mu, now, heap, call, ret, ghost, prev, mutated, verif, users, sent,
                   flow, told>>
    /\ OthersUnchanged

\* the notification of the new task is formatted
FormatTaskNotification ==
    /\ notice.stage = "new"
    /\ notice' = [notice EXCEPT !.stage = "formatted",
                                !.text = formatTaskNotification(Bytes(notice.chars))]
    /\ ClientUnchanged
    /\ UNCHANGED <<cache, mu, now, heap, call, ret, ghost, prev, mutated, verif, users, sent,
                   flow, told>>
    /\ OthersUnchanged

NextNotice ==
    \/ \E i \in AsciiLens, j \in WideLens : NewTask(i, j)
    \/ FormatTaskNotification

SpecNotice == Init /\ [][NextNotice]_vars

-----------------------------------------------------------------------------
(* SpecPolicy: SetRetryPolicy with any arguments, zero and negative ones
   included, and then one call of UpdateTask under the policy it left *)

AnyCounts == (0 - 1)..MaxPolicyCount
AnyDurations == (0 - 1)..MaxPolicyArg
PolicyOutcomes ==
    {ConnFailure, Response(StatusServerError, NoBody), Response(StatusOK, NoBody)}

NextPolicy ==
    \/ \E n \in AnyCounts, w \in AnyDurations, e \in AnyDurations : PolicyChange(n, w, e)
    \/ Start(Caller, "UpdateTask", 1)
    \/ \E out \in PolicyOutcomes, j \in 0..(retryWait - 1) : RetryAttempt(Caller, out, 0, j)

SpecPolicy == Init /\ [][NextPolicy]_vars

-----------------------------------------------------------------------------
(* SpecRemote: one caller of CreateTask against a remote board that may
   create the task and then fail to answer *)

NextRemote ==
    \/ \E n \in PolicyCounts, e \in PolicyBudgets : PolicyChange(n, 0, e)
    \/ \E id0 \in ArgIds("CreateTask") : Start(Caller, "CreateTask", id0)
    \/ \E out \in Outcomes("CreateTask"), dur \in AttemptTimes, j \in 0..(retryWait - 1),
          lost \in BOOLEAN :
             RetryAttemptRemote(Caller, out, dur, j, lost)

SpecRemote == Init /\ [][NextRemote]_vars

-----------------------------------------------------------------------------
(* SpecRace: as SpecCache over a short time, with the history of when each
   list was read from the remote *)

NextRace ==
    \/ \E p \in Procs : Start(p, "GetTasks", 0)
    \/ \E p \in Procs : GetTasksRLock(p)
    \/ \E p \in Procs : GetTasksCacheCheck(p)
    \/ \E p \in Procs : \E out \in CacheOutcomes : GetTasksRead(p, out)
    \/ \E p \in Procs : GetTasksLock(p)
    \/ \E p \in Procs : GetTasksStoreMake(p)
    \/ \E p \in Procs : GetTasksStoreCopy(p)
    \/ \E p \in Procs : GetTasksStoreTime(p)
    \/ RaceTick

SpecRace == Init /\ [][NextRace]_vars

-----------------------------------------------------------------------------
(* SpecBoard: the verification loop against a remote board that holds what
   was created on it and answers every request *)

NextBoard ==
    \/ \E r \in Records : \E ti \in Titles, c \in Contents, img \in BOOLEAN, how \in Keeps :
          BoardStart(r, ti, c, img, how)
    \/ \E r \in Records : BoardVerify(r)
    \/ VerifyTick

SpecBoard == Init /\ [][NextBoard]_vars

-----------------------------------------------------------------------------
(* SpecPoll: the polls for new tasks of one process, one after the other *)

NextPoll == \E failed \in BOOLEAN, tasks \in PollLists : CheckNewTasks(failed, tasks)

SpecPoll == Init /\ [][NextPoll]_vars

-----------------------------------------------------------------------------
(* SpecStore: goroutines that call the locking methods of one Storage;
   SpecStoreFair adds that a goroutine inside a method goes on, and that a
   goroutine waiting for s.mu gets it if the lock is free again and again *)

NextStore ==
    \/ \E g \in StoreProcs, m \in StoreMethods : StoreCall(g, m)
    \/ \E g \in StoreProcs : StoreRLock(g)
    \/ \E g \in StoreProcs : StoreLock(g)
    \/ \E g \in StoreProcs : StoreSaveCheck(g)
    \/ \E g \in StoreProcs : \E fail \in {0} \cup SaveFiles : StoreSave(g, fail)
    \/ \E g \in StoreProcs : StoreWrite(g)
    \/ \E g \in StoreProcs : StoreRead(g)
    \/ \E g \in StoreProcs : StoreTemplates(g)

SpecStore == Init /\ [][NextStore]_vars

SpecStoreFair ==
    /\ SpecStore
    /\ \A g \in StoreProcs :
          /\ SF_vars(StoreRLock(g))
          /\ SF_vars(StoreLock(g))
          /\ WF_vars(StoreSaveCheck(g))
          /\ WF_vars(\E fail \in {0} \cup SaveFiles : StoreSave(g, fail))
          /\ WF_vars(StoreWrite(g))
          /\ WF_vars(StoreRead(g))
          /\ WF_vars(StoreTemplates(g))

-----------------------------------------------------------------------------
(* SpecBackoff: one caller whose every attempt fails with status 500 or
   succeeds, under policies with many attempts *)

BackoffCounts == {DurationBits + 1}
BackoffWaits == {0, 3}
BackoffBudgets == {0, MaxDuration}
BackoffOutcomes(op) ==
    {Response(StatusServerError, NoBody),
     Response(SuccessStatus(op), IF op = "GetTasks" THEN ListBody(ListA) ELSE NoBody)}

NextBackoff ==
    \/ \E n \in BackoffCounts, w \in BackoffWaits, e \in BackoffBudgets : PolicyChange(n, w, e)
    \/ \E op \in {"GetTasks", "UpdateTask"} : Start(Caller, op, 0)
    \/ \E out \in BackoffOutcomes("UpdateTask"), j \in 0..(retryWait - 1) :
          RetryAttempt(Caller, out, 0, j)
    \/ GetTasksRLock(Caller)
    \/ GetTasksCacheCheck(Caller)
    \/ \E out \in BackoffOutcomes("GetTasks"), j \in 0..(retryWait - 1) :
          GetTasksRequest(Caller, out, 0, j)
    \/ GetTasksLock(Caller)
    \/ GetTasksStoreMake(Caller)
    \/ GetTasksStoreCopy(Caller)
    \/ GetTasksStoreTime(Caller)

SpecBackoff == Init /\ [][NextBackoff]_vars

-----------------------------------------------------------------------------
(* Claims about the retry engine and the five operations, under Spec *)

\* the last attempt of call c received the success status of its operation
\* after attempts that all received status 500
SucceededAfter500s(c) ==
    /\ c.op \in Ops
    /\ c.last.k = "resp"
    /\ c.last.status = SuccessStatus(c.op)
    /\ c.only500

\* C1 as stated: for each of the five operations, when the first N-1 attempts
\* of a call receive 500 and the Nth receives the success status (N within the
\* attempt ceiling), the call ends with no error after exactly N requests.
C1_AsStated ==
    \A p \in Procs :
        SucceededAfter500s(call[p]) /\ call[p].requests <= retryCount
        => /\ call[p].err = NoErr
           /\ call[p].pc # "loop"
           /\ call[p].requests = call[p].attempt + 1

\* C1 amended: the same, where for GetTasks the 200 response also carries a
\* body that decodes.
C1_RetryThenSuccess ==
    \A p \in Procs :
        /\ SucceededAfter500s(call[p])
        /\ call[p].requests <= retryCount
        /\ (call[p].op = "GetTasks" => call[p].last.body.ok)
        => /\ call[p].err = NoErr
           /\ call[p].pc # "loop"
           /\ call[p].requests = call[p].attempt + 1

C1_Witness ==
    \E p \in Procs :
        /\ SucceededAfter500s(call[p])
        /\ call[p].op = "GetTasks"
        /\ call[p].requests = 3
        /\ call[p].pc = "done"
        /\ call[p].err = NoErr

\* a CreateTask call that ended on a 201 with a well-formed {data:{id}} body
CreatedWithId(c) ==
    /\ c.op = "CreateTask"
    /\ c.pc = "done"
    /\ c.last.k = "resp"
    /\ c.last.status = StatusCreated
    /\ c.last.body.ok

\* C2 as stated: after a CreateTask call that ended on a 201 with a
\* well-formed body, the caller's task identifier equals the parsed id,
\* whatever it was before and however many attempts failed before.
C2_AsStated ==
    \A p \in Procs : CreatedWithId(call[p]) => call[p].id = call[p].last.body.id

\* C2 amended: the identifier equals the parsed id when the parsed id is not
\* zero; a parsed id of zero leaves the identifier as it was before the call.
C2_ParsedIdWritten ==
    \A p \in Procs :
        CreatedWithId(call[p])
        => call[p].id = IF call[p].last.body.id # 0 THEN call[p].last.body.id
                        ELSE call[p].idBefore

C2_Witness ==
    \E p \in Procs :
        /\ CreatedWithId(call[p])
        /\ call[p].attempt = 2
        /\ call[p].idBefore = 1
        /\ call[p].last.body.id = 2
        /\ call[p].id = 2

\* the verdict of the retry engine on the last response of call c
SuccessEnds(c) == c.pc = "done" /\ c.err = NoErr
TerminalEnds(c) ==
    /\ c.pc = "done"
    /\ c.err = Err("status", c.last.status)
    /\ c.requests = c.attempt + 1
Retried(c) == c.pc = "loop" /\ c.requests = c.attempt
AttemptsRemain(c) == c.requests < retryCount
OverBudget(c) == maxRetryElapsed > 0 /\ c.elapsed > maxRetryElapsed

\* C3 as stated: for CreateTask, UpdateTask, UploadAttachment and AddComment a
\* response status is classified in exactly one way: the success status ends
\* the call with no error; a status >= 500 or 429 is retried while attempts
\* remain; any other status ends the call with an error at that attempt, so a
\* first response of that kind leaves exactly one request made.
C3_AsStated ==
    \A p \in Procs :
        LET c == call[p] IN
        c.op \in RetryOps /\ c.last.k = "resp"
        => IF c.last.status = SuccessStatus(c.op) THEN SuccessEnds(c)
           ELSE IF c.last.status >= 500 \/ c.last.status = 429
           THEN (AttemptsRemain(c) => Retried(c))
           ELSE TerminalEnds(c)

\* C3 amended: a status >= 500 or 429 is retried while attempts remain and the
\* elapsed time of the call has not exceeded the max-elapsed budget; when it
\* has, the call ends with the timeout error.
C3_StatusClasses ==
    \A p \in Procs :
        LET c == call[p] IN
        c.op \in RetryOps /\ c.last.k = "resp"
        => IF c.last.status = SuccessStatus(c.op) THEN SuccessEnds(c)
           ELSE IF c.last.status >= 500 \/ c.last.status = 429
           THEN IF AttemptsRemain(c) /\ ~OverBudget(c) THEN Retried(c)
                ELSE c.pc = "done" /\ c.err # NoErr
           ELSE TerminalEnds(c)

C3_Witness ==
    \E p \in Procs :
        /\ call[p].op = "AddComment"
        /\ call[p].last.k = "resp"
        /\ call[p].last.status = 404
        /\ call[p].requests = 1
        /\ call[p].pc = "done"

StorePcs == {"make", "copy", "time"}

\* C7: the cached list and its timestamp change only in the store of a
\* GetTasks call whose fetch ended on a decoded 200 response; the other four
\* operations and every failed GetTasks call leave both unchanged.
C7_CacheFrame ==
    [][cache' # cache
       => \E p \in Procs :
             /\ call[p].op = "GetTasks"
             /\ call[p].pc \in StorePcs
             /\ call'[p] # call[p]
             /\ call[p].err = NoErr
             /\ call[p].last.k = "resp"
             /\ call[p].last.status = StatusOK
             /\ call[p].last.body.ok]_vars

C7_Witness ==
    \E p \in Procs :
        /\ cache.Tasks # <<>>
        /\ View(cache.Tasks, heap) = ghost.data
        /\ call[p].op = "UpdateTask"
        /\ call[p].pc = "done"
        /\ call[p].err # NoErr

-----------------------------------------------------------------------------
(* Claims about the task cache, under SpecCache *)

\* the observed caller leaves the cache check of a call that started within
\* the expiration window of its own previous successful fetch
SecondCallChecks ==
    /\ call[Caller].pc = "check"
    /\ call'[Caller].pc # "check"
    /\ prev.valid
    /\ now - prev.at < Expiration

\* the call is answered from the cache with the list the previous fetch decoded
AnsweredFromPrevious ==
    /\ call'[Caller].pc = "done"
    /\ call'[Caller].hit
    /\ call'[Caller].requests = 0
    /\ View(ret'[Caller], heap') = prev.data

CacheSnapshot ==
    \/ /\ ghost.tasks = NoFetch
       /\ ghost.time = NoFetch
       /\ cache.Tasks = <<>>
    \/ /\ ghost.tasks # NoFetch
       /\ ghost.tasks = ghost.time
       /\ View(cache.Tasks, heap) = ghost.data
       /\ cache.UpdatedAt = ghost.at

\* C6: whenever no writer is inside the exclusive-lock section, and whenever a
\* reader holds the shared lock, the cache is empty or holds the complete list
\* of one successful fetch together with the timestamp of that same fetch.
C6_CacheSnapshot ==
    (mu.writer = NoProc \/ mu.readers # {}) => CacheSnapshot

C6_Witness ==
    \E p, q \in Procs :
        /\ call[p].pc = "check"
        /\ p \in mu.readers
        /\ call[q].pc = "lock"
        /\ Len(cache.Tasks) > 0
        /\ call[q].wire # ghost.data

-----------------------------------------------------------------------------
(* Claims about the lists GetTasks hands out, under SpecAlias *)

\* caller p has just changed a list it was given
Mutates(p) == mutated'[p] # mutated[p]

\* C5 as stated: no change a caller makes to a list GetTasks returned to it,
\* to a field or to a nested list of an element, changes the data the cache
\* holds or the data another caller was given by a cache hit.
C5_AsStated ==
    [][\A p \in Procs :
          Mutates(p) =>
             /\ View(cache'.Tasks, heap') = View(cache.Tasks, heap)
             /\ \A q \in Procs \ {p} : View(ret'[q], heap') = View(ret[q], heap)]_vars

\* the part of C5 that the element-wise copy does give: assigning a field of
\* an element of a returned list changes neither the cache nor another list
C5_FieldsIndependent ==
    [][\A p \in Procs :
          Mutates(p) /\ heap' = heap =>
             /\ View(cache'.Tasks, heap') = View(cache.Tasks, heap)
             /\ \A q \in Procs \ {p} : View(ret'[q], heap') = View(ret[q], heap)]_vars

\* a caller has written into a nested list and the cache shows the write
C5_Aliased ==
    \E i \in DOMAIN cache.Tasks :
        /\ Deref(cache.Tasks[i].Attachments, heap) # <<>>
        /\ Deref(cache.Tasks[i].Attachments, heap)[1] = Scribble

-----------------------------------------------------------------------------
(* Claims about the verification loop, under SpecVerify and SpecVerifyFair *)

\* the timer of record r has fired and the record has stopped without a match
StopsUnmatched(r) ==
    /\ verif[r].st = "timer"
    /\ verif'[r].st = "stopped"
    /\ ~verif'[r].matched

\* the number of sends of message msg to user u attempted for record r
Attempts(log, u, msg) ==
    Cardinality({i \in DOMAIN log : log[i].to = u /\ log[i].msg = msg})

\* C8: for every verification record, whatever the other records do, at most
\* one corrective CreateTask call is issued, and the retry counter is 0 when
\* the record starts, only ever holds 0 or 1 and never decreases.
C8_OneCorrection ==
    [][\A r \in Records :
          /\ verif'[r].creates <= 1
          /\ verif'[r].RetryCount \in {0, 1}
          /\ verif'[r].RetryCount >= verif[r].RetryCount
          /\ (verif[r].st = "none" /\ verif'[r].st # "none" => verif'[r].RetryCount = 0)]_vars

C8_Witness ==
    \E r, q \in Records :
        /\ r # q
        /\ verif[r].st = "stopped"
        /\ verif[r].RetryCount = 1
        /\ verif[r].creates = 1
        /\ ~verif[r].matched
        /\ verif[q].st = "timer"
        /\ verif[q].RetryCount = 1

\* C9: when a check fails while the retry counter of the record is 1, exactly
\* one send of the error message to the submitting user and exactly one send
\* of the administrator message to every user who is an administrator at that
\* moment are attempted, whichever of these sends fail, and no message is sent
\* twice to the same recipient.
C9_FanOut ==
    [][\A r \in Records :
          StopsUnmatched(r) /\ verif[r].RetryCount = 1 =>
             /\ Attempts(sent'[r], verif[r].OriginalSender, "error") = 1
             /\ \A u \in Users :
                   users[u] = RoleAdmin => Attempts(sent'[r], u, "admin") = 1
             /\ \A u \in Users, m \in {"error", "admin"} : Attempts(sent'[r], u, m) <= 1]_vars

C9_Witness ==
    \E r \in Records :
        /\ verif[r].st = "stopped"
        /\ verif[r].RetryCount = 1
        /\ Len(sent[r]) = 1 + Cardinality(Users)
        /\ \E i \in DOMAIN sent[r] : i < Len(sent[r]) /\ ~sent[r][i].ok

\* C10: every started verification record eventually stops with no timer
\* pending, given that timers fire; and when a record stops without a check
\* having matched, a send to the submitting user and to each administrator of
\* that moment has been attempted.
C10_NoSilentEnd ==
    /\ \A r \in Records : (verif[r].st = "timer") ~> (verif[r].st = "stopped")
    /\ [][\A r \in Records :
             StopsUnmatched(r) =>
                /\ Attempts(sent'[r], verif[r].OriginalSender, "error") >= 1
                /\ \A u \in Users :
                      users[u] = RoleAdmin => Attempts(sent'[r], u, "admin") >= 1]_vars

C10_Witness ==
    \E r, q \in Records :
        /\ verif[r].st = "stopped"
        /\ ~verif[r].matched
        /\ verif[r].RetryCount = 0
        /\ Len(sent[r]) >= 2
        /\ verif[q].st = "stopped"
        /\ verif[q].matched
        /\ verif[q].RetryCount = 1

\* a send is attempted for record r
Notifies(r) == sent'[r] # sent[r]

\* C11 as stated: the loop sends a notification for a record only when a check
\* has failed while the retry counter of the record is 1; while the counter is
\* 0 it sends nothing.
C11_AsStated ==
    [][\A r \in Records : Notifies(r) => verif[r].RetryCount = 1]_vars

\* C11: the loop sends for a record only on the step on which it stops
\* following the record without a match, and only once: when a check fails at
\* retry counter 1, or, at either counter, when the list of tasks cannot be
\* fetched, or, at counter 0, when the corrective create or upload fails. A
\* step that schedules a further check, or that finds a match, sends nothing.
C11_OnlyWhenGivingUp ==
    [][\A r \in Records :
          /\ Notifies(r) => StopsUnmatched(r) /\ sent[r] = <<>>
          /\ (verif'[r].st = "timer" \/ verif'[r].matched => ~Notifies(r))]_vars

\* a record has stopped at retry counter 0 with its users told, once because
\* the fetch failed and once because the re-creation failed
C11_Witness ==
    \E r, q \in Records :
        /\ verif[r].st = "stopped" /\ verif[r].RetryCount = 0
        /\ verif[r].creates = 0 /\ sent[r] # <<>>
        /\ verif[q].st = "stopped" /\ verif[q].RetryCount = 0
        /\ verif[q].creates = 1 /\ sent[q] # <<>>

\* the check of record r has failed at retry counter 0 and the re-creation
\* has succeeded
FirstMismatchHandled(r) ==
    /\ verif[r].st = "timer"
    /\ verif[r].RetryCount = 0
    /\ verif'[r].checks = verif[r].checks + 1
    /\ verif'[r].st = "timer"

\* C12 as stated: on the first mismatch the loop, in this order, creates a
\* task equal to the tracked one but for the marker appended to its title,
\* uploads the image, when one is held, to the newly created task under a new
\* attachment identifier, increments the retry counter, replaces the tracked
\* task by the new one and schedules exactly one further check 2 minutes
\* later, after the create and the upload.
C12_AsStated ==
    [][\A r \in Records :
          FirstMismatchHandled(r) =>
             LET v == verif[r]
                 created == [ID |-> NewTaskId,
                             Title |-> v.OriginalTask.Title \o Mark,
                             Description |-> v.OriginalTask.Description]
                 n == Len(verif'[r].calls)
             IN  /\ n = IF v.HasImage THEN 3 ELSE 2
                 /\ verif'[r].calls[1] =
                       <<"CreateTask", v.OriginalTask.ID, created.Title, created.Description>>
                 /\ v.HasImage =>
                       /\ verif'[r].calls[2][1] = "UploadAttachment"
                       /\ verif'[r].calls[2][2] = created.ID
                       /\ \A t \in 0..MaxVerifyTime : verif'[r].calls[2][3] # ImgAttachmentID(t)
                 /\ verif'[r].calls[n] = <<"AfterFunc", now + VerifyDelay>>
                 /\ verif'[r].RetryCount = 1
                 /\ verif'[r].OriginalTask.Title = created.Title
                 /\ verif'[r].OriginalTask.Description = created.Description
                 /\ verif'[r].due = now + VerifyDelay]_vars

\* verifyTask runs for record r
Checked(r) == verif'[r].checks = verif[r].checks + 1

\* C13: every record goes PENDING_CHECK -> (MATCH | MISMATCH_FIRST ->
\* PENDING_RECHECK -> (MATCH | MISMATCH_FINAL)): at most two checks run for a
\* record, the second one always ends it, and a check in which every
\* comparison passes ends it with no create, no upload, no notification and
\* no further timer; a record that has ended never changes again.
C13_StateMachine ==
    /\ [](\A r \in Records :
             /\ verif[r].checks <= 2
             /\ (verif[r].st = "timer" => verif[r].checks = verif[r].RetryCount)
             /\ (verif[r].st = "none" => verif[r].checks = 0))
    /\ [][\A r \in Records :
             /\ (Checked(r) => verif[r].st = "timer")
             /\ (Checked(r) /\ verif[r].checks = 1 => verif'[r].st = "stopped")
             /\ (Checked(r) /\ verif'[r].matched =>
                    /\ verif'[r].st = "stopped"
                    /\ verif'[r].creates = verif[r].creates
                    /\ verif'[r].calls = <<>>
                    /\ sent'[r] = sent[r])
             /\ (verif[r].st = "stopped" => verif'[r] = verif[r] /\ sent'[r] = sent[r])]_vars

\* one record has matched at its first check, the other has failed its second
C13_Witness ==
    \E r, q \in Records :
        /\ verif[r].st = "stopped" /\ verif[r].matched /\ verif[r].checks = 1
        /\ verif[q].st = "stopped" /\ ~verif[q].matched /\ verif[q].checks = 2
        /\ sent[r] = <<>> /\ sent[q] # <<>>

\* the tasks a check may find: every identifier, title, description and list
\* of attachments of the model
CheckTasks ==
    {WireTask(id, ti, d, f) :
        id \in {RecordTaskId(r) : r \in Records} \cup {NewTaskId},
        ti \in Titles \cup {t \o Mark : t \in Titles},
        d \in Contents, f \in {<<>>, <<"f">>}}

\* the lists a check may be given: one task, or two tasks of the board whose
\* identifiers differ
CheckLists ==
    {<<>>} \cup {<<t>> : t \in CheckTasks}
    \cup {l \in RemoteTasks \X RemoteTasks : l[1].ID # l[2].ID}

\* the condition of C14 on a fetched list and a record
PassesAsSpecified(tasks, v) ==
    \E i \in DOMAIN tasks :
        /\ tasks[i].ID = v.OriginalTask.ID
        /\ tasks[i].Title = v.OriginalTask.Title
        /\ (v.RetryCount > 0 => Contains(tasks[i].Title, Mark))
        /\ (v.OriginalContent # <<>> => Contains(tasks[i].Description, v.OriginalContent))
        /\ (v.HasImage => Len(tasks[i].Attachments) >= 1)

\* C14: for every record whose check is pending and every list the fetch may
\* return, the check passes exactly when the list contains a task with the
\* tracked identifier whose title equals the tracked title and, when the
\* retry counter is above 0, contains the marker, whose description contains
\* the original content when there is one, and which lists an attachment when
\* an image was attached; otherwise, a missing task included, it is a mismatch.
C14_CheckPasses ==
    \A r \in Records :
        verif[r].st = "timer" =>
           \A tasks \in CheckLists :
               /\ CheckTask(tasks, verif[r]) = "ok" <=> PassesAsSpecified(tasks, verif[r])
               /\ (\A i \in DOMAIN tasks : tasks[i].ID # verif[r].OriginalTask.ID) =>
                      CheckTask(tasks, verif[r]) = "not_found"

\* a record with content and an image waits for its second check, which some
\* list passes, some list fails on the content, some on the attachment and
\* some holds no such task, while the other record has passed its first check
C14_Witness ==
    \E r, q \in Records :
        /\ verif[r].st = "timer" /\ verif[r].RetryCount = 1
        /\ verif[r].HasImage /\ verif[r].OriginalContent # <<>>
        /\ \A res \in {"ok", "content", "attachment", "not_found"} :
              \E tasks \in CheckLists : CheckTask(tasks, verif[r]) = res
        /\ verif[q].st = "stopped" /\ verif[q].matched /\ verif[q].checks = 1

-----------------------------------------------------------------------------
(* Claims about the retry loops, under Spec and SpecBackoff *)

\* the call has made every attempt the ceiling allows and the last one asked
\* for a retry
Exhausted(c) ==
    /\ c.op \in RetryOps
    /\ c.pc = "done"
    /\ ~OpResult(c.op, c.last).done
    /\ c.requests = retryCount

\* C15 as stated: retryOperation never makes more attempts than the ceiling,
\* and when all of them were made without a terminal outcome the error it
\* returns is the error of the last attempt.
C15_AsStated ==
    \A p \in Procs :
        LET c == call[p] IN
        c.op \in RetryOps
        => /\ c.requests <= retryCount
           /\ (Exhausted(c) => c.err = OpResult(c.op, c.last).err)

\* C15, amended: when all attempts were made without a terminal outcome, the
\* error returned is the timeout error if the elapsed time exceeded the budget
\* after the last attempt, and the error of the last attempt otherwise.
C15_LastError ==
    \A p \in Procs :
        LET c == call[p] IN
        c.op \in RetryOps
        => /\ c.requests <= retryCount
           /\ (Exhausted(c) =>
                 c.err = IF OverBudget(c) THEN Err("timeout", 0)
                         ELSE OpResult(c.op, c.last).err)

C15_Witness ==
    \E p \in Procs :
        /\ Exhausted(call[p])
        /\ ~OverBudget(call[p])
        /\ call[p].requests = DefaultRetryCount
        /\ call[p].err = Err("retry_status", 503)

\* the call of caller p makes an attempt in this step
Attempts_(p) ==
    /\ call[p].op \in RetryOps
    /\ call[p].pc = "loop"
    /\ call'[p] # call[p]

\* C16: an attempt that is terminal ends the call in the same step with the
\* result of that attempt (its error, or success), with no sleep after it, and
\* a call that has ended makes no further attempt.
C16_TerminalStops ==
    [][\A p \in Procs :
          /\ Attempts_(p) /\ OpResult(call[p].op, call'[p].last).done
             => /\ call'[p].pc = "done"
                /\ call'[p].err = OpResult(call[p].op, call'[p].last).err
                /\ call'[p].sleeps = call[p].sleeps
                /\ call'[p].slept = call[p].slept
          /\ call[p].op \in RetryOps /\ call[p].pc = "done" /\ call'[p] # call[p]
             => call'[p].requests = 0 /\ call'[p].sleeps = 0]_vars

C16_Witness ==
    \E p \in Procs :
        /\ call[p].op = "UploadAttachment"
        /\ call[p].pc = "done"
        /\ call[p].last.k = "build"
        /\ call[p].err = Err("build", 0)
        /\ call[p].attempt = 1
        /\ call[p].sleeps = 1

\* C17 as stated: no attempt of retryOperation starts once the time elapsed
\* since the call began exceeds the max-elapsed budget.
C17_AsStated ==
    [][\A p \in Procs :
          call[p].op \in RetryOps /\ call'[p].requests > call[p].requests
          => ~(maxRetryElapsed > 0
               /\ call[p].elapsed + Slept(call[p].slept) > maxRetryElapsed)]_vars

\* C18 as stated: the wait after the retryable attempt of index i is at least
\* base_wait * 2^i and below base_wait * (2^i + 1).
C18_AsStated ==
    \A p \in Procs :
        call[p].sleeps > 0
        => /\ call[p].slept >= retryWait * Pow2(call[p].attempt - 1)
           /\ call[p].slept < retryWait * (Pow2(call[p].attempt - 1) + 1)

\* C19 as stated: the loop of GetTasks ends the call with a failure, as
\* retryOperation does, when after an attempt that asks for a retry the
\* elapsed time exceeds the max-elapsed budget.
C19_AsStated ==
    [][\A p \in Procs :
          /\ call[p].op = "GetTasks"
          /\ call[p].pc = "loop"
          /\ call'[p].requests > call[p].requests
          /\ (call'[p].last.k = "conn" \/ Retryable(call'[p].last.status))
          /\ maxRetryElapsed > 0
          /\ call'[p].elapsed > maxRetryElapsed
          => call'[p].pc = "done" /\ call'[p].err # NoErr]_vars

\* C20: a GetTasks call that missed the cache and receives a status that is
\* not 200, below 500 and not 429 ends in that step with the error of that
\* status, has made no request after it, and the cache is as it was.
C20_TerminalStatus ==
    [][\A p \in Procs :
          /\ call[p].op = "GetTasks" /\ call[p].pc = "loop" /\ call'[p] # call[p]
             /\ call'[p].last.k = "resp"
             /\ call'[p].last.status # StatusOK
             /\ call'[p].last.status < 500
             /\ call'[p].last.status # 429
             => /\ call'[p].pc = "done"
                /\ call'[p].err = Err("status", call'[p].last.status)
                /\ call'[p].requests = call[p].requests + 1
                /\ call'[p].sleeps = call[p].sleeps
                /\ cache' = cache
          /\ call[p].op = "GetTasks" /\ call[p].pc = "done" /\ call'[p] # call[p]
             => call'[p].requests = 0]_vars

C20_Witness ==
    \E p \in Procs :
        /\ call[p].op = "GetTasks"
        /\ call[p].pc = "done"
        /\ call[p].last.status = StatusCreated
        /\ call[p].err = Err("status", StatusCreated)
        /\ call[p].attempt = 1
        /\ call[p].requests = 2

-----------------------------------------------------------------------------
(* Claims about the errors of GetTasks and CreateTask, under Spec *)

\* C21 as stated: GetTasks reports a decode error only when a 200 response
\* carried a malformed body, an unexpected-status error when the attempts end
\* on a status other than 200, also when every attempt up to the ceiling
\* returned 5xx or 429, and a transport error when the attempts end on a
\* connection failure.
C21_AsStated ==
    \A p \in Procs :
        LET c == call[p] IN
        c.op = "GetTasks" /\ c.pc = "done" /\ ~c.hit /\ c.err # NoErr
        => /\ (c.err.kind = "decode" =>
                 c.last.k = "resp" /\ c.last.status = StatusOK /\ ~c.last.body.ok)
           /\ (c.last.k = "resp" /\ c.last.status # StatusOK =>
                 c.err = Err("status", c.last.status))
           /\ (c.last.k = "conn" => c.err.kind = "transport")

\* the last response of CreateTask call c is a 201 whose body does not decode
CreatedUndecodable(c) ==
    /\ c.op = "CreateTask"
    /\ c.last.k = "resp"
    /\ c.last.status = StatusCreated
    /\ ~c.last.body.ok

\* C22: when CreateTask receives a 201 whose body cannot be decoded, the call
\* ends at that attempt with no error, no request follows it, and the
\* caller's task identifier is the one it had before the call.
C22_UndecodableCreated ==
    /\ [](\A p \in Procs :
             CreatedUndecodable(call[p])
             => /\ call[p].pc = "done"
                /\ call[p].err = NoErr
                /\ call[p].requests = call[p].attempt + 1
                /\ call[p].id = call[p].idBefore)
    /\ [][\A p \in Procs :
             CreatedUndecodable(call[p]) /\ call'[p] # call[p]
             => call'[p].requests = 0 /\ call'[p].pc # "done"]_vars

C22_Witness ==
    \E p \in Procs :
        /\ CreatedUndecodable(call[p])
        /\ call[p].pc = "done"
        /\ call[p].attempt = 1
        /\ call[p].idBefore = 1
        /\ call[p].id = 1
        /\ call[p].err = NoErr

\* the number of times the closure of call c has run
Invocations(c) == c.requests + IF c.last.k = "build" THEN 1 ELSE 0

\* C23: every attempt of an UploadAttachment call sends a complete multipart
\* body, built for that attempt, with exactly the parts metadata and file
\* holding the whole metadata and the whole content; no attempt sends what an
\* earlier attempt left of its body, and as many bodies are built as attempts
\* are made.
C23_FreshBody ==
    \A p \in Procs :
        LET c == call[p] IN
        c.op = "UploadAttachment"
        => /\ c.bodies = Invocations(c)
           /\ c.requests > 0 =>
                 /\ Len(c.payload) = 2
                 /\ c.payload[1] = [name |-> "metadata", content |-> UploadMetadata]
                 /\ c.payload[2] = [name |-> "file", content |-> UploadData]

\* a third attempt has sent its body after a connection failure and a 500
C23_Witness ==
    \E p \in Procs :
        /\ call[p].op = "UploadAttachment"
        /\ call[p].pc = "done"
        /\ call[p].err = NoErr
        /\ call[p].requests = 3
        /\ call[p].bodies = 3
        /\ ~call[p].only500
        /\ call[p].payload # <<>>

-----------------------------------------------------------------------------
(* Claims about response bodies and metrics, under Spec *)

\* the call holds a response it has not returned from yet: GetTasks between
\* the 200 response and its return
HoldsResponse(c) == c.op = "GetTasks" /\ c.pc \in {"lock", "make", "copy", "time"}

C29_AsStated ==
    \A p \in Procs :
        call[p].op \in Ops /\ call[p].pc = "done"
        => call[p].incs = 1 /\ call[p].lats = 1

-----------------------------------------------------------------------------
(* Claims about the text of a notification, under SpecNotice *)

\* C30 as stated: in the text of a new-task notification a description of
\* more than 200 characters is cut to its first 200 characters followed by
\* the ellipsis, a description of at most 200 characters appears whole with no
\* ellipsis, and no character is split.
C30_AsStated ==
    notice.stage = "formatted" =>
       notice.text = IF Len(notice.chars) > DescLimit
                     THEN Bytes(SubSeq(notice.chars, 1, DescLimit)) \o Ellipsis
                     ELSE Bytes(notice.chars)

-----------------------------------------------------------------------------
(* Claims about the handlers that create a task, under SpecFlow *)

\* the positions in a sequence of calls of the calls named name
CallsOf(calls, name) == {i \in 1..Len(calls) : calls[i][1] = name}

\* the handler of record r runs in this step
Handled(r) == flow[r].kind = "none" /\ flow'[r].kind # "none"

\* C24: in each task-creation flow (text, skip, photo) CreateTask is the first
\* call; the first check is scheduled after it, exactly once and only when it
\* returned no error; when it returned an error nothing is scheduled; and the
\* handler goes on to its answer with the check still pending, not run.
C24_ScheduledAfterCreate ==
    /\ [](\A r \in Records :
            flow[r].kind # "none" =>
               LET calls == flow[r].calls
                   timers == CallsOf(calls, "AfterFunc")
               IN  /\ CallsOf(calls, "CreateTask") = {1}
                   /\ calls[Len(calls)][1] = "Send"
                   /\ IF flow[r].createErr
                      THEN timers = {} /\ verif[r] = NoVerification
                      ELSE /\ Cardinality(timers) = 1
                           /\ \A i \in timers : 1 < i /\ i < Len(calls)
                           /\ verif[r].st # "none")
    /\ [][\A r \in Records :
             Handled(r) /\ ~flow'[r].createErr =>
                /\ verif'[r].st = "timer"
                /\ verif'[r].checks = 0
                /\ verif'[r].due = now + VerifyDelay
                /\ CallsOf(flow'[r].calls, "AfterFunc")
                      = {i \in 1..Len(flow'[r].calls) :
                            flow'[r].calls[i] = <<"AfterFunc", verif'[r].due>>}]_vars

C24_Witness ==
    /\ flow["r1"].kind = "text" /\ flow["r1"].createErr
    /\ flow["r2"].kind \in {"skip", "photo"} /\ ~flow["r2"].createErr
    /\ verif["r2"].st = "timer" /\ verif["r2"].checks = 0

\* C25: in the photo flow, when CreateTask succeeded and UploadAttachment
\* failed, no remote call follows the upload (nothing deletes or updates the
\* created task), the task is stored locally, and the check is scheduled with
\* the image flag set.
C25_UploadFailureKeepsTask ==
    /\ [](\A r \in Records :
            flow[r].kind = "photo" /\ ~flow[r].createErr /\ flow[r].uploadErr =>
               LET calls == flow[r].calls
               IN  /\ flow[r].stored
                   /\ \A i \in 1..Len(calls) :
                         calls[i][1] \in {"CreateTask", "UploadAttachment", "AddTask",
                                          "SaveData", "AfterFunc", "Send"}
                   /\ \A i \in CallsOf(calls, "UploadAttachment") :
                         /\ CallsOf(calls, "CreateTask") = {i - 1}
                         /\ CallsOf(calls, "AddTask") = {i + 1}
                         /\ CallsOf(calls, "SaveData") = {i + 2}
                   /\ Cardinality(CallsOf(calls, "AfterFunc")) = 1
                   /\ verif[r].st # "none")
    /\ [][\A r \in Records :
             Handled(r) /\ flow'[r].kind = "photo" /\ ~flow'[r].createErr
                /\ flow'[r].uploadErr =>
                   /\ verif'[r].st = "timer"
                   /\ verif'[r].HasImage
                   /\ verif'[r].OriginalTask.ID = RecordTaskId(r)]_vars

C25_Witness ==
    \E r \in Records :
       /\ flow[r].kind = "photo" /\ ~flow[r].createErr /\ flow[r].uploadErr
       /\ flow[r].stored
       /\ verif[r].st = "timer" /\ verif[r].HasImage

\* the uploads made so far: the record, whether the handler or the correction
\* made it, and its position in the calls
Uploads ==
    UNION {{<<r, "first", i>> : i \in CallsOf(flow[r].calls, "UploadAttachment")}
              : r \in Records} \cup
    UNION {{<<r, "retry", i>> : i \in CallsOf(verif[r].calls, "UploadAttachment")}
              : r \in Records}

\* the attachment identifier of an upload
UploadID(u) ==
    IF u[2] = "first" THEN flow[u[1]].calls[u[3]][3] ELSE verif[u[1]].calls[u[3]][3]

\* C26 as stated: any two distinct uploads, first uploads of a photo and
\* corrective re-uploads, of the same or of concurrent flows, use different
\* attachment identifiers.
C26_AsStated ==
    \A u, w \in Uploads : u # w => UploadID(u) # UploadID(w)

\* C27 as stated: the text sent to the submitting user is the same whatever
\* the reason of the escalation, and does not contain the reason, which only
\* the administrators' text carries.
C27_AsStated ==
    /\ \A r, q \in Records :
          told[r] # NoTold /\ told[q] # NoTold => told[r].user = told[q].user
    /\ \A r \in Records :
          told[r] # NoTold =>
             /\ ~Contains(told[r].user, told[r].reason)
             /\ Contains(told[r].admin, told[r].reason)

-----------------------------------------------------------------------------
(* Claims about the sleeps of the retry loops, under Spec *)

\* the iterations the loop of a call that has ended went through: those that
\* asked for a retry, and the one that ended the loop if it did not
Iterations(c) == IF c.attempt = retryCount THEN c.attempt ELSE c.attempt + 1

\* C33 as stated: every backoff sleep of retryOperation and of the loop of
\* GetTasks is followed by a further attempt, so a call that has ended slept
\* fewer times than it made attempts, and a call that used up a ceiling of n
\* attempts slept exactly n - 1 times.
C33_AsStated ==
    \A p \in Procs :
        LET c == call[p] IN
        c.op \in Ops /\ c.pc = "done" /\ ~c.hit
        => /\ c.sleeps < Iterations(c)
           /\ (c.attempt = retryCount => c.sleeps = retryCount - 1)

-----------------------------------------------------------------------------
(* Claims about the retry policy, under SpecPolicy *)

\* what SetRetryPolicy with the arguments n, w, e would make of the policy
\* the client has now: each setting is its argument when that is positive and
\* is what it was otherwise
SettingKept(n, w, e) ==
    LET new == SetRetryPolicy(Policy, n, w, e)
    IN  /\ new.count = (IF n > 0 THEN n ELSE retryCount)
        /\ new.wait = (IF w > 0 THEN w ELSE retryWait)
        /\ new.maxElapsed = (IF e > 0 THEN e ELSE maxRetryElapsed)
        /\ new.count >= 1 /\ new.wait > 0 /\ new.maxElapsed > 0

\* C36: after NewClient and any sequence of SetRetryPolicy calls the attempt
\* ceiling is at least 1 and the base wait and the budget are above 0; a
\* non-positive argument leaves its own setting as it was and does not touch
\* the other two; so a retried call that has ended made at least one attempt,
\* and the range the jitter is drawn from is never empty.
C36_PolicyPositive ==
    /\ retryCount >= 1 /\ retryWait > 0 /\ maxRetryElapsed > 0
    /\ \A n \in AnyCounts, w \in AnyDurations, e \in AnyDurations : SettingKept(n, w, e)
    /\ 0..(retryWait - 1) # {}
    /\ \A p \in Procs :
          call[p].op \in RetryOps /\ call[p].pc = "done" => call[p].last.k # "none"

C36_Witness ==
    /\ retryCount = 1 /\ retryWait = MaxPolicyArg /\ maxRetryElapsed = 1
    /\ call[Caller].pc = "done"
    /\ call[Caller].requests = 1
    /\ call[Caller].err # NoErr

-----------------------------------------------------------------------------
(* Claims about CreateTask and the remote board, under SpecRemote *)

\* C34 as stated: one call of CreateTask makes the remote board create at most
\* one task, also when the remote may create the task and then answer with a
\* 5xx or 429 status or drop the connection before its answer arrives.
C34_AsStated ==
    \A p \in Procs : call[p].op = "CreateTask" => call[p].created <= 1

-----------------------------------------------------------------------------
(* Claims about concurrent refreshes of the cache, under SpecRace *)

\* C35 as stated: under concurrent GetTasks calls that all miss the cache, a
\* cached list is never replaced by a list that was read from the remote
\* earlier than the cached one, and, whenever the cache holds one snapshot,
\* the age used for expiry (since UpdatedAt) is not shorter than the age of
\* the data (since it was read).
C35_AsStated ==
    /\ [][ghost.tasks # NoFetch /\ ghost'.tasks # ghost.tasks
             => ghost'.read >= ghost.read]_vars
    /\ [](mu.writer = NoProc /\ ghost.tasks # NoFetch
             => now - cache.UpdatedAt >= now - ghost.read)

-----------------------------------------------------------------------------
(* Claims about the verification loop and the remote board, under SpecBoard *)

\* the timer of record r fires in this step
Checks(r) == verif'[r].checks = verif[r].checks + 1

\* C31 as stated: when the first mismatch was followed by a corrective
\* CreateTask (and re-upload) that succeeded, and at the second check the
\* board lists the re-created task with the suffixed title, a description
\* containing the original content and, if an image was held, an attachment,
\* the second check ends in a match and nothing is sent.
C31_AsStated ==
    [][\A r \in Records :
          /\ Checks(r)
          /\ verif[r].RetryCount = 1
          /\ CheckTask(BoardList(board), verif[r]) = "ok"
          => /\ verif'[r].st = "stopped"
             /\ verif'[r].matched
             /\ sent'[r] = sent[r]]_vars

\* C32 as stated: a corrective re-creation is issued only if, when the first
\* check runs, the board does not hold a task with the tracked identifier and
\* matching title, content and attachment.
C32_AsStated ==
    [][\A r \in Records :
          /\ Checks(r)
          /\ verif[r].RetryCount = 0
          /\ verif'[r].creates > verif[r].creates
          => CheckTask(BoardList(board), verif[r]) # "ok"]_vars

-----------------------------------------------------------------------------
(* Claims about the poll for new tasks, under SpecPoll *)

\* the positions of the log at which the event ev of task i stands
Events(ev, i) == {k \in DOMAIN poll.log : poll.log[k].ev = ev /\ poll.log[k].id = i}

\* C37: over any sequence of polls at most one notification is broadcast per
\* task identifier; the task is recorded as known just before its notification
\* is sent, a task recorded as known is recorded and notified no more, and a
\* task first seen as done is recorded as known with no notification.
C37_NotifiedOnce ==
    \A i \in PollIds :
        /\ Cardinality(Events("notify", i)) <= 1
        /\ Cardinality(Events("known", i)) <= 1
        /\ (Events("known", i) # {} <=> IsKnownTask(poll.known, i))
        /\ \A k \in Events("notify", i) :
              k - 1 \in Events("known", i) /\ ~poll.log[k - 1].done
        /\ \A k \in Events("known", i) :
              poll.log[k].done => Events("notify", i) = {}

C37_Witness ==
    /\ poll.again
    /\ \E i, j \in PollIds :
          /\ Events("notify", i) # {}
          /\ Events("known", j) # {} /\ Events("notify", j) = {}

-----------------------------------------------------------------------------
(* Claims about the lock of Storage, under SpecStoreFair *)

\* goroutine g holds s.mu, for writing or for reading
HoldsStore(g) == store.writer = g \/ g \in store.readers

\* C38: SaveData always terminates, whatever the other goroutines do with the
\* Storage: a goroutine never calls Lock or RLock on s.mu while it holds it,
\* a goroutine that is in no method holds nothing, and every call of SaveData
\* returns.
C38_SaveDataTerminates ==
    /\ [](\A g \in StoreProcs :
            /\ store.pc[g] \in LockWaits \cup RLockWaits => ~HoldsStore(g)
            /\ store.pc[g] = "idle" => ~HoldsStore(g))
    /\ \A g \in StoreProcs :
          (store.pc[g] \in SaveDataPcs) ~> (store.pc[g] = "idle")

C38_Witness ==
    /\ store.pc["g1"] = "s_lock"
    /\ store.writer = "g2" /\ store.pc["g2"] = "s_save"
    /\ store.pc["g3"] = "m_lock"
    /\ store.saves = 1

====
